---- MODULE Spec2Model ----
(***************************************************************************)
(* Flood-fill wave engine of Wellannn/FloodFill (src/src/core/grid.js).    *)
(*                                                                         *)
(* JavaScript arrays are reference objects, so a grid is modelled as a     *)
(* sequence of row references into a heap of row storage: `heap[id]` is    *)
(* the content of the row object `id`, and a grid is a sequence of ids.    *)
(* Two grids share storage exactly when they hold a common id.  Positions  *)
(* are 0-based as in the source; sequences are 1-based, hence the `+ 1`.   *)
(*                                                                         *)
(* The territory generator (generateGridWithZones, generateGrid) works on  *)
(* grids it builds itself, so its grids are plain values.  Every call of   *)
(* Math.random is a nondeterministic draw.                                 *)
(***************************************************************************)
EXTENDS Integers, Sequences, FiniteSets, TLC

\* ------------------------------------------------------------------ bounds
\* Largest grid area (rows * cols) of the grids floodFill is called on.
MaxCells == 9

\* Largest grid area (rows * cols) asked of the generators.
MaxGenCells == 3

\* Largest grid area (rows * cols) handed to the grid primitives.
MaxPrimCells == 4

\* Largest grid extent (rows, cols) handed to determineFlipDirection and
\* getNeighbors.
MaxExtent == 4

\* Largest available width and height, and largest cell size, in pixels.
MaxAvailable == 7
MaxCellSize == 3

\* Largest grid area (rows * cols) handed to calculateTerritoryCount.
MaxCountCells == 53

\* Largest area (rows * cols) of the base grid and of the snapshot merged.
MaxDisplayCells == 3

\* The colour the caller writes into a grid after the call.
WrittenColor == "#FFFFFF"

\* Colour tokens used by the tests of floodFill.
GridColors == {"#FF0000", "#00FF00"}
TargetColors == GridColors \cup {"#0000FF"}

\* The value JavaScript yields for an absent result.
Undefined == "undefined"

\* The value of a cell no territory has claimed yet.
Null == "null"

CYBERPUNK_PALETTE ==
    <<"#FF006E", "#FB5607", "#FFBE0B", "#8338EC", "#3A86FF",
      "#06FFA5", "#00D9FF", "#FF10F0", "#00F5FF">>

\* The values of Math.floor(Math.random() * CYBERPUNK_PALETTE.length) that
\* are explored: the first and the last index.
PaletteDraws == {0, Len(CYBERPUNK_PALETTE) - 1}

\* The values of Math.random() and of |perlinNoise| that are explored when a
\* neighbour is tried, in thousandths: the least and the greatest.
RandomDraws == {0, 999}
NoiseDraws == {0, 999}

\* The organicness values the generator is called with: the ends and the
\* middle of 0..100, and values outside it on each side.
Organicness == {-25, 0, 1, 50, 100, 150, 300}

VARIABLES
    heap,           \* row storage: heap[id] is the content of row object id
    grid,           \* floodFill's argument `grid` (the caller's grid)
    row,            \* floodFill's argument `row`
    col,            \* floodFill's argument `col`
    targetColor,    \* floodFill's argument `targetColor`
    gridCopy,       \* the caller's deep copy of the grid taken before the call
    pc,             \* "call" | "recursive" | "done" | "returned" | "written"
    levelGrid,      \* floodFillRecursive's parameter `grid`
    currentLevel,   \* floodFillRecursive's parameter `currentLevel`
    originalColor,  \* floodFillRecursive's parameter `originalColor`
    visited,        \* the Set of position keys shared by all levels
    rows,           \* floodFillRecursive's parameter `rows`
    cols,           \* floodFillRecursive's parameter `cols`
    snapshots       \* the accumulated / returned snapshot list

\* State of a call of generateGridWithZones or generateGrid.
VARIABLES
    generator,      \* the function called: "generateGridWithZones" | "generateGrid"
    genRows,        \* its argument `rows`
    genCols,        \* its argument `cols`
    organicness,    \* its argument `organicness`
    genPc,          \* "call" | "grow" | "done"
    zoneGrid,       \* generateGridWithZones' local `grid`
    territories,    \* its local `territories`
    iteration,      \* the loop counter `iteration`
    activeCount,    \* its local `activeCount`
    generated       \* the grid returned

fillVars == <<heap, grid, row, col, targetColor, gridCopy, pc, levelGrid,
              currentLevel, originalColor, visited, rows, cols, snapshots>>

genVars == <<generator, genRows, genCols, organicness, genPc, zoneGrid,
             territories, iteration, activeCount, generated>>

\* State of a caller of the grid primitives, who calls one of them on
\* `grid`, `row`, `col`, `targetColor` and then writes into a grid.
VARIABLES
    primitive,      \* the primitive called
    returnedGrid,   \* the grid returned by setCellColor or cloneGrid
    sameArray,      \* whether the returned outer array is the argument itself
    value,          \* the value returned by getCellColor or isValidPosition
    returnedCopy,   \* the caller's deep copy of the returned grid
    written         \* the caller's write: <<which grid, row, col>>

primVars == <<primitive, returnedGrid, sameArray, value, returnedCopy, written>>

\* State of a caller of one of the helper functions.
VARIABLES
    utility,        \* the function called
    args,           \* its arguments
    argsCopy,       \* the caller's deep copy of the grid arguments
    returnValue     \* the value returned

utilVars == <<utility, args, argsCopy, returnValue>>

\* State of the mounted application: the App component with its hooks
\* useGridDimensions and useFloodFillAnimation.
VARIABLES
    state,                \* the useState values as rendered by the last commit
    effects,              \* the passive effects of the last commit not yet run
    stepCleanup,          \* whether the step effect's last run returned a cleanup
    animationTimeoutRef,  \* animationTimeoutRef.current
    timers,               \* the timeouts set and neither fired nor cleared
    calls,                \* the calls made by the last task, in order
    completions,          \* the arguments of onAnimationComplete since the last startAnimation
    fills,                \* the number of calls of floodFill so far
    generations,          \* the number of calls of generateGridWithZones so far
    events                \* the number of user and observer events so far

appVars == <<state, effects, stepCleanup, animationTimeoutRef, timers, calls,
             completions, fills, generations, events>>

vars == <<fillVars, genVars, primVars, utilVars, appVars>>

Range(s) == {s[i] : i \in 1..Len(s)}

Max(a, b) == IF a > b THEN a ELSE b

\* The colours held by a grid, row by row (what toEqual compares).
Deref(h, g) == [i \in 1..Len(g) |-> h[g[i]]]

\* ------------------------------------------------------- grid primitives
getGridDimensions(h, g) ==
    [rows |-> Len(g), cols |-> IF Len(g) > 0 THEN Len(h[g[1]]) ELSE 0]

\* Faulty variant: the test col >= 0 is missing.
isValidPositionNegativeColumn(h, g, r, c) ==
    IF Len(g) = 0
    THEN FALSE
    ELSE r >= 0 /\ r < Len(g) /\ c < Len(h[g[1]])

\* Faulty variant: the column bound is inclusive.
isValidPositionColInclusive(h, g, r, c) ==
    IF Len(g) = 0
    THEN FALSE
    ELSE r >= 0 /\ r < Len(g) /\ c >= 0 /\ c <= Len(h[g[1]])

isValidPosition(h, g, r, c) ==
    IF Len(g) = 0
    THEN FALSE
    ELSE r >= 0 /\ r < Len(g) /\ c >= 0 /\ c < Len(h[g[1]])

\* Faulty variant: the column read is always the first one, grid[row][0].
getCellColorFirstColumn(h, g, r, c) ==
    IF ~isValidPosition(h, g, r, c)
    THEN Undefined
    ELSE IF 1 \in DOMAIN h[g[r + 1]] THEN h[g[r + 1]][1] ELSE Undefined

\* Faulty variant: the function body has no return statement.
getCellColorNoReturn(h, g, r, c) == Undefined

\* grid[row][col]: reading an array past its end yields undefined.
getCellColor(h, g, r, c) ==
    IF ~isValidPosition(h, g, r, c)
    THEN Undefined
    ELSE IF c + 1 \in DOMAIN h[g[r + 1]] THEN h[g[r + 1]][c + 1] ELSE Undefined

\* Faulty variant: every cell of the modified row takes the new colour.
setCellColorWholeRow(h, g, r, c, color) ==
    IF ~isValidPosition(h, g, r, c)
    THEN [heap |-> h, grid |-> g]
    ELSE [heap |-> Append(h, [k \in 1..Len(h[g[r + 1]]) |-> color]),
          grid |-> [i \in 1..Len(g) |-> IF i = r + 1 THEN Len(h) + 1 ELSE g[i]]]

\* Faulty variant: the position is not validated, grid.map runs on every input.
setCellColorNoGuard(h, g, r, c, color) ==
    IF r + 1 \in 1..Len(g)
    THEN [heap |-> Append(h, [k \in 1..Len(h[g[r + 1]]) |->
                                 IF k = c + 1 THEN color ELSE h[g[r + 1]][k]]),
          grid |-> [i \in 1..Len(g) |-> IF i = r + 1 THEN Len(h) + 1 ELSE g[i]]]
    ELSE [heap |-> h, grid |-> g]

\* Faulty variant: the other cells of the row take the old colour of the target cell.
setCellColorSmear(h, g, r, c, color) ==
    IF ~isValidPosition(h, g, r, c)
    THEN [heap |-> h, grid |-> g]
    ELSE [heap |-> Append(h, [k \in 1..Len(h[g[r + 1]]) |->
                                 IF k = c + 1 THEN color ELSE h[g[r + 1]][c + 1]]),
          grid |-> [i \in 1..Len(g) |-> IF i = r + 1 THEN Len(h) + 1 ELSE g[i]]]

\* Faulty variant: the cell is written into the row object of the input grid.
setCellColorInPlace(h, g, r, c, color) ==
    IF ~isValidPosition(h, g, r, c)
    THEN [heap |-> h, grid |-> g]
    ELSE [heap |-> [h EXCEPT ![g[r + 1]][c + 1] = color], grid |-> g]

\* grid.map over the rows: the modified row is a new array, every other row
\* is the same row object as in the input.
setCellColor(h, g, r, c, color) ==
    IF ~isValidPosition(h, g, r, c)
    THEN [heap |-> h, grid |-> g]
    ELSE [heap |-> Append(h, [k \in 1..Len(h[g[r + 1]]) |->
                                 IF k = c + 1 THEN color ELSE h[g[r + 1]][k]]),
          grid |-> [i \in 1..Len(g) |-> IF i = r + 1 THEN Len(h) + 1 ELSE g[i]]]

\* Faulty variant: the last row of the copy is the input's row object.
cloneGridSharedLastRow(h, g) ==
    [heap |-> h \o [i \in 1..(Len(g) - 1) |-> h[g[i]]],
     grid |-> [i \in 1..Len(g) |-> IF i = Len(g) THEN g[i] ELSE Len(h) + i]]

\* Faulty variant: a shallow copy, [...grid]: the rows are the input's row objects.
cloneGridShallow(h, g) == [heap |-> h, grid |-> g]

\* Faulty variant: every row of the copy is a copy of the first row.
cloneGridFirstRow(h, g) ==
    [heap |-> h \o [i \in 1..Len(g) |-> h[g[1]]],
     grid |-> [i \in 1..Len(g) |-> Len(h) + i]]

\* grid.map(row => [...row]): every row of the result is a new array.
cloneGrid(h, g) ==
    [heap |-> h \o [i \in 1..Len(g) |-> h[g[i]]],
     grid |-> [i \in 1..Len(g) |-> Len(h) + i]]

\* ------------------------------------------------------------ flood fill
\* Faulty variant: the row bound is inclusive.
getNeighborsRowInclusive(totalRows, totalCols, r, c) ==
    LET directions == << <<r - 1, c>>, <<r + 1, c>>, <<r, c - 1>>, <<r, c + 1>> >>
        inBounds(p) == p[1] >= 0 /\ p[1] <= totalRows /\ p[2] >= 0 /\ p[2] < totalCols
    IN  SelectSeq(directions, inBounds)

\* Faulty variant: the four directions are returned without the bounds filter.
getNeighborsUnfiltered(totalRows, totalCols, r, c) ==
    << <<r - 1, c>>, <<r + 1, c>>, <<r, c - 1>>, <<r, c + 1>> >>

getNeighbors(totalRows, totalCols, r, c) ==
    LET directions == << <<r - 1, c>>, <<r + 1, c>>, <<r, c - 1>>, <<r, c + 1>> >>
        inside(p) == p[1] >= 0 /\ p[1] < totalRows /\ p[2] >= 0 /\ p[2] < totalCols
    IN  SelectSeq(directions, inside)

\* Faulty variant: the key is built from the sum, so (0,1) and (1,0) collide.
createPositionKeySum(r, c) == ToString(r + c)

createPositionKey(r, c) == ToString(r) \o "," \o ToString(c)

\* Faulty variant: every cell of the level is processed, whatever its colour.
shouldProcessCellAlways(h, g, r, c, original) == TRUE

shouldProcessCell(h, g, r, c, original) ==
    getCellColor(h, g, r, c) = original

\* Faulty variant: only the first cell of the level is repainted.
processCellsAtLevelFirstOnly(h, g, cells, color) ==
    IF cells = <<>>
    THEN [heap |-> h, grid |-> g]
    ELSE setCellColor(h, g, Head(cells)[1], Head(cells)[2], color)

RECURSIVE processCellsAtLevel(_, _, _, _)
processCellsAtLevel(h, g, cells, color) ==
    IF cells = <<>>
    THEN [heap |-> h, grid |-> g]
    ELSE LET s == setCellColor(h, g, Head(cells)[1], Head(cells)[2], color)
         IN  processCellsAtLevel(s.heap, s.grid, Tail(cells), color)

getUnvisitedNeighbors(nrows, ncols, r, c, vis) ==
    LET neighbors == getNeighbors(nrows, ncols, r, c)
        fresh(p) == createPositionKey(p[1], p[2]) \notin vis
    IN  SelectSeq(neighbors, fresh)

\* cellsToProcess.flatMap(...): the neighbours of each cell are marked
\* visited before the next cell's neighbours are computed.
RECURSIVE nextLevel(_, _, _, _)
nextLevel(cells, vis, nrows, ncols) ==
    IF cells = <<>>
    THEN [level |-> <<>>, visited |-> vis]
    ELSE LET neighbors == getUnvisitedNeighbors(nrows, ncols, Head(cells)[1],
                                                Head(cells)[2], vis)
             vis2 == vis \cup {createPositionKey(p[1], p[2]) : p \in Range(neighbors)}
             rest == nextLevel(Tail(cells), vis2, nrows, ncols)
         IN  [level |-> neighbors \o rest.level, visited |-> rest.visited]

\* ------------------------------------------------------ territory generator
\* A position key "r,c" read back as a position: cellStr.split(',').map(Number).
parsePositionKey(key, nrows, ncols) ==
    CHOOSE p \in (0..(nrows - 1)) \X (0..(ncols - 1)) :
        createPositionKey(p[1], p[2]) = key

\* Faulty variant: the index is drawn in 0..length, one past the end of the
\* palette, where the array read gives undefined.
randomCyberpunkColorPastEnd ==
    {IF i < Len(CYBERPUNK_PALETTE) THEN CYBERPUNK_PALETTE[i + 1] ELSE Undefined :
        i \in PaletteDraws \cup {Len(CYBERPUNK_PALETTE)}}

\* The colours randomCyberpunkColor can return on the explored draws.
randomCyberpunkColor == {CYBERPUNK_PALETTE[i + 1] : i \in PaletteDraws}

\* ------------------------------------------- JavaScript number arithmetic
\* A JavaScript number is an IEEE 754 double: a sign and a significand of at
\* most 53 bits times a power of two, [neg, m, e] standing for
\* (-1)^neg * m * 2^e.  A significand is a sequence of 15-bit limbs, least
\* significant first, <<>> for 0, so that no intermediate exceeds 31 bits.
SignificandBits == 53
LimbBits == 15
Limb == 2 ^ LimbBits

RECURSIVE Limbs(_)
Limbs(n) == IF n = 0 THEN <<>> ELSE <<n % Limb>> \o Limbs(n \div Limb)

RECURSIVE LimbsValue(_)
LimbsValue(a) == IF a = <<>> THEN 0 ELSE Head(a) + Limb * LimbsValue(Tail(a))

\* Without the zero limbs at the most significant end.
RECURSIVE Normalize(_)
Normalize(a) ==
    IF a # <<>> /\ a[Len(a)] = 0 THEN Normalize(SubSeq(a, 1, Len(a) - 1)) ELSE a

RECURSIVE AddLimbsCarry(_, _, _)
AddLimbsCarry(a, b, carry) ==
    IF a = <<>> /\ b = <<>>
    THEN IF carry = 0 THEN <<>> ELSE <<carry>>
    ELSE LET x == (IF a = <<>> THEN 0 ELSE Head(a))
                  + (IF b = <<>> THEN 0 ELSE Head(b)) + carry
         IN  <<x % Limb>> \o AddLimbsCarry(IF a = <<>> THEN a ELSE Tail(a),
                                          IF b = <<>> THEN b ELSE Tail(b),
                                          x \div Limb)

AddLimbs(a, b) == AddLimbsCarry(a, b, 0)

\* a - b for a >= b.
RECURSIVE SubLimbsBorrow(_, _, _)
SubLimbsBorrow(a, b, borrow) ==
    IF a = <<>>
    THEN <<>>
    ELSE LET x == Head(a) - (IF b = <<>> THEN 0 ELSE Head(b)) - borrow
         IN  <<x % Limb>> \o SubLimbsBorrow(Tail(a), IF b = <<>> THEN b ELSE Tail(b),
                                           IF x < 0 THEN 1 ELSE 0)

SubLimbs(a, b) == Normalize(SubLimbsBorrow(a, b, 0))

\* a < b, for normalized a and b.
LessLimbs(a, b) ==
    \/ Len(a) < Len(b)
    \/ /\ Len(a) = Len(b)
       /\ \E i \in 1..Len(a) :
             /\ a[i] < b[i]
             /\ \A j \in (i + 1)..Len(a) : a[j] = b[j]

\* a * d + carry for one limb d.
RECURSIVE MulLimb(_, _, _)
MulLimb(a, d, carry) ==
    IF a = <<>>
    THEN IF carry = 0 THEN <<>> ELSE <<carry>>
    ELSE LET x == Head(a) * d + carry
         IN  <<x % Limb>> \o MulLimb(Tail(a), d, x \div Limb)

RECURSIVE MulLimbs(_, _)
MulLimbs(a, b) ==
    IF b = <<>>
    THEN <<>>
    ELSE Normalize(AddLimbs(MulLimb(a, Head(b), 0), <<0>> \o MulLimbs(a, Tail(b))))

\* Long division by one limb d, from the most significant limb down: the
\* quotient's limbs, most significant first, and the remainder.
RECURSIVE DivLimbFrom(_, _, _, _)
DivLimbFrom(a, d, q, r) ==
    IF a = <<>>
    THEN [q |-> q, r |-> r]
    ELSE LET x == r * Limb + a[Len(a)]
         IN  DivLimbFrom(SubSeq(a, 1, Len(a) - 1), d, <<x \div d>> \o q, x % d)

DivLimb(a, d) ==
    LET z == DivLimbFrom(a, d, <<>>, 0) IN [q |-> Normalize(z.q), r |-> z.r]

\* a * 2^s
ShiftLeft(a, s) ==
    IF a = <<>> THEN a
    ELSE [i \in 1..(s \div LimbBits) |-> 0] \o MulLimb(a, 2 ^ (s % LimbBits), 0)

\* floor(a / 2^s), and whether a bit was lost.
ShiftRight(a, s) ==
    LET whole == s \div LimbBits
        z == DivLimb(SubSeq(a, whole + 1, Len(a)), 2 ^ (s % LimbBits))
    IN  [q |-> z.q,
         inexact |-> z.r # 0 \/ \E i \in 1..whole : i <= Len(a) /\ a[i] # 0]

\* The number of bits of a normalized a.
BitLength(a) ==
    IF a = <<>> THEN 0
    ELSE LimbBits * (Len(a) - 1)
         + (CHOOSE k \in 1..LimbBits : 2 ^ (k - 1) <= a[Len(a)] /\ a[Len(a)] < 2 ^ k)

\* Rounding to nearest, ties to even, of the exact value a * 2^e (plus a
\* non-zero remainder below the last bit when inexact holds) to 53 bits.
RoundToDouble(neg, a, e, inexact) ==
    IF BitLength(a) <= SignificandBits
    THEN [neg |-> neg, m |-> a, e |-> e]
    ELSE LET drop == BitLength(a) - SignificandBits
             upper == ShiftRight(a, drop - 1)
             kept == ShiftRight(upper.q, 1)
             above == inexact \/ upper.inexact
             up == kept.inexact /\ (above \/ kept.q[1] % 2 = 1)
         IN  [neg |-> neg,
              m |-> IF up THEN AddLimbs(kept.q, <<1>>) ELSE kept.q,
              e |-> e + drop]

Abs(n) == IF n < 0 THEN -n ELSE n

\* An integer as a number.
ToDouble(n) == [neg |-> n < 0, m |-> Limbs(Abs(n)), e |-> 0]

\* a / b for integers a and 0 < b < 128: the quotient of a * 2^60 by b has
\* more than 53 bits whenever the division is inexact.
DoubleDivide(a, b) ==
    LET z == DivLimb(ShiftLeft(Limbs(Abs(a)), 60), b)
    IN  RoundToDouble(a < 0, z.q, -60, z.r # 0)

\* x * y
DoubleTimes(x, y) ==
    RoundToDouble(x.neg # y.neg /\ x.m # <<>> /\ y.m # <<>>,
                  MulLimbs(x.m, y.m), x.e + y.e, FALSE)

\* x + y
DoublePlus(x, y) ==
    LET e == IF x.e < y.e THEN x.e ELSE y.e
        a == ShiftLeft(x.m, x.e - e)
        b == ShiftLeft(y.m, y.e - e)
    IN  IF x.neg = y.neg THEN RoundToDouble(x.neg, AddLimbs(a, b), e, FALSE)
        ELSE IF LessLimbs(a, b) THEN RoundToDouble(y.neg, SubLimbs(b, a), e, FALSE)
        ELSE RoundToDouble(x.neg /\ a # b, SubLimbs(a, b), e, FALSE)

\* Math.floor(x), for |x| below 2^31.
DoubleFloor(x) ==
    LET z == IF x.e >= 0 THEN [q |-> ShiftLeft(x.m, x.e), inexact |-> FALSE]
             ELSE ShiftRight(x.m, -x.e)
    IN  IF ~x.neg THEN LimbsValue(z.q)
        ELSE IF z.inexact THEN -(LimbsValue(z.q) + 1)
        ELSE -LimbsValue(z.q)

\* Math.floor(Math.sqrt(n) / 2): the k with 2k <= sqrt(n) < 2k + 2.
floorHalfSqrt(n) == CHOOSE k \in 0..n : 4 * k * k <= n /\ n < 4 * (k + 1) * (k + 1)

\* Faulty variant: the interpolation runs on organicness / 100.
calculateTerritoryCountInverted(nrows, ncols, org) ==
    LET baseNumTerritories == nrows * ncols
        minTerritories == Max(2, floorHalfSqrt(nrows * ncols))
    IN  DoubleFloor(
            DoublePlus(ToDouble(minTerritories),
                       DoubleTimes(ToDouble(baseNumTerritories - minTerritories),
                                   DoubleDivide(org, 100))))

calculateTerritoryCount(nrows, ncols, org) ==
    LET baseNumTerritories == nrows * ncols
        minTerritories == Max(2, floorHalfSqrt(nrows * ncols))
    IN  DoubleFloor(
            DoublePlus(ToDouble(minTerritories),
                       DoubleTimes(ToDouble(baseNumTerritories - minTerritories),
                                   DoubleDivide(100 - org, 100))))

\* Array.from({ length: numTerritories }, ...): every outcome of the draws of
\* the start cells and colours; a length below 1 gives the empty array.
createTerritorySeeds(numTerritories, nrows, ncols) ==
    [1..numTerritories ->
        {[color |-> color,
          cells |-> << <<startRow, startCol>> >>,
          frontier |-> <<createPositionKey(startRow, startCol)>>] :
            startRow \in 0..(nrows - 1), startCol \in 0..(ncols - 1),
            color \in randomCyberpunkColor}]

\* In thousandths.  `noise` is |perlinNoise(row + seed, col + seed, 2)|, a
\* hash of the cell and the seed, taken here as a drawn value.
calculateGrowthProbability(noise, org) ==
    LET baseGrowth == 300 + (noise * 4) \div 10
    IN  baseGrowth + org * 4

\* Faulty variant: the test grid[r][c] === null is missing.
getUnfilledNeighborsAny(g, nrows, ncols, r, c) ==
    LET neighbors == << <<r - 1, c>>, <<r + 1, c>>, <<r, c - 1>>, <<r, c + 1>> >>
        inBounds(p) == p[1] >= 0 /\ p[1] < nrows /\ p[2] >= 0 /\ p[2] < ncols
    IN  SelectSeq(neighbors, inBounds)

\* Faulty variant: the cells looked at are two steps away.
getUnfilledNeighborsTwoAway(g, nrows, ncols, r, c) ==
    LET neighbors == << <<r - 2, c>>, <<r + 2, c>>, <<r, c - 2>>, <<r, c + 2>> >>
        unfilled(p) == /\ p[1] >= 0 /\ p[1] < nrows /\ p[2] >= 0 /\ p[2] < ncols
                       /\ g[p[1] + 1][p[2] + 1] = Null
    IN  SelectSeq(neighbors, unfilled)

getUnfilledNeighbors(g, nrows, ncols, r, c) ==
    LET neighbors == << <<r - 1, c>>, <<r + 1, c>>, <<r, c - 1>>, <<r, c + 1>> >>
        unfilled(p) == /\ p[1] >= 0 /\ p[1] < nrows /\ p[2] >= 0 /\ p[2] < ncols
                       /\ g[p[1] + 1][p[2] + 1] = Null
    IN  SelectSeq(neighbors, unfilled)

\* Every outcome of growFromCell: the unfilled neighbours whose draw of
\* Math.random() is below their growth chance, in the order tried.
growFromCell(g, cellStr, nrows, ncols, org) ==
    LET cell == parsePositionKey(cellStr, nrows, ncols)
        neighbors == getUnfilledNeighbors(g, nrows, ncols, cell[1], cell[2])
        indexes == [i \in 1..Len(neighbors) |-> i]
    IN  {LET admitted(i) ==
                 draws[i][2] < calculateGrowthProbability(draws[i][1], org)
             kept == SelectSeq(indexes, admitted)
         IN  [j \in 1..Len(kept) |-> neighbors[kept[j]]] :
            draws \in [1..Len(neighbors) -> NoiseDraws \X RandomDraws]}

\* grownCells.forEach: newGrid[nr][nc] = territory.color
RECURSIVE paintCells(_, _, _)
paintCells(g, cells, color) ==
    IF cells = <<>>
    THEN g
    ELSE paintCells([g EXCEPT ![Head(cells)[1] + 1][Head(cells)[2] + 1] = color],
                    Tail(cells), color)

\* newFrontier.add(key) for each grown cell: a Set keeps a key once, in
\* insertion order.
RECURSIVE addKeys(_, _)
addKeys(frontier, cells) ==
    IF cells = <<>>
    THEN frontier
    ELSE LET key == createPositionKey(Head(cells)[1], Head(cells)[2])
         IN  addKeys(IF key \in Range(frontier) THEN frontier
                     ELSE Append(frontier, key), Tail(cells))

\* for (const cellStr of territory.frontier): every outcome of growing one
\* territory from the rest of its frontier.
RECURSIVE growFrontier(_, _, _, _, _, _, _, _)
growFrontier(g, frontier, color, newCells, newFrontier, nrows, ncols, org) ==
    IF frontier = <<>>
    THEN {[grid |-> g, cells |-> newCells, frontier |-> newFrontier]}
    ELSE UNION {growFrontier(paintCells(g, grownCells, color), Tail(frontier),
                             color, newCells \o grownCells,
                             addKeys(newFrontier, grownCells), nrows, ncols, org) :
                   grownCells \in growFromCell(g, Head(frontier), nrows, ncols, org)}

\* Faulty variant: a territory grows from all its cells, not from its frontier.
RECURSIVE growTerritoriesFromCells(_, _, _, _, _, _, _)
growTerritoriesFromCells(g, todo, done, active, nrows, ncols, org) ==
    IF todo = <<>>
    THEN {[grid |-> g, territories |-> done, activeCount |-> active]}
    ELSE UNION {growTerritoriesFromCells(
                    t.grid, Tail(todo),
                    Append(done, [color |-> Head(todo).color, cells |-> t.cells,
                                  frontier |-> t.frontier]),
                    IF Len(t.frontier) > 0 THEN active + 1 ELSE active,
                    nrows, ncols, org) :
                   t \in growFrontier(g, addKeys(<<>>, Head(todo).cells),
                                      Head(todo).color, Head(todo).cells, <<>>,
                                      nrows, ncols, org)}

\* territories.map(...): the territories are grown one after the other on
\* the same newGrid.
RECURSIVE growTerritories(_, _, _, _, _, _, _)
growTerritories(g, todo, done, active, nrows, ncols, org) ==
    IF todo = <<>>
    THEN {[grid |-> g, territories |-> done, activeCount |-> active]}
    ELSE UNION {growTerritories(
                    t.grid, Tail(todo),
                    Append(done, [color |-> Head(todo).color, cells |-> t.cells,
                                  frontier |-> t.frontier]),
                    IF Len(t.frontier) > 0 THEN active + 1 ELSE active,
                    nrows, ncols, org) :
                   t \in growFrontier(g, Head(todo).frontier, Head(todo).color,
                                      Head(todo).cells, <<>>, nrows, ncols, org)}

\* Every outcome of one call of growTerritoriesIteration.
growTerritoriesIteration(g, terrs, nrows, ncols, org) ==
    growTerritories(g, terrs, <<>>, 0, nrows, ncols, org)

\* Faulty variant: the comparison is dist > maxDist, so the farthest
\* coloured cell of the window is returned.
findClosestColoredNeighborFarthest(g, r, c, nrows, ncols) ==
    LET dr(k) == (k \div 5) - 2
        dc(k) == (k % 5) - 2
        dist(k) == (IF dr(k) < 0 THEN -dr(k) ELSE dr(k))
                   + (IF dc(k) < 0 THEN -dc(k) ELSE dc(k))
        colored == {k \in 0..24 :
                      /\ r + dr(k) >= 0 /\ r + dr(k) < nrows
                      /\ c + dc(k) >= 0 /\ c + dc(k) < ncols
                      /\ g[r + dr(k) + 1][c + dc(k) + 1] # Null}
    IN  IF colored = {}
        THEN Null
        ELSE LET k == CHOOSE k \in colored :
                          \A j \in colored :
                              dist(k) > dist(j) \/ (dist(k) = dist(j) /\ k <= j)
             IN  g[r + dr(k) + 1][c + dc(k) + 1]

\* The 5 x 5 window is scanned row by row and a candidate replaces the
\* closest only when strictly nearer: the first of the nearest is returned.
findClosestColoredNeighbor(g, r, c, nrows, ncols) ==
    LET dr(k) == (k \div 5) - 2
        dc(k) == (k % 5) - 2
        dist(k) == (IF dr(k) < 0 THEN -dr(k) ELSE dr(k))
                   + (IF dc(k) < 0 THEN -dc(k) ELSE dc(k))
        colored == {k \in 0..24 :
                      /\ r + dr(k) >= 0 /\ r + dr(k) < nrows
                      /\ c + dc(k) >= 0 /\ c + dc(k) < ncols
                      /\ g[r + dr(k) + 1][c + dc(k) + 1] # Null}
    IN  IF colored = {}
        THEN Null
        ELSE LET k == CHOOSE k \in colored :
                          \A j \in colored :
                              dist(k) < dist(j) \/ (dist(k) = dist(j) /\ k <= j)
             IN  g[r + dr(k) + 1][c + dc(k) + 1]

\* Faulty variant: the test of the cell is inverted, so an unfilled cell is
\* returned as it is.
fillRemainingCellsInverted(g, nrows, ncols) ==
    {[r \in 1..Len(g) |-> [c \in 1..Len(g[r]) |->
         IF g[r][c] = Null THEN g[r][c]
         ELSE findClosestColoredNeighbor(g, r - 1, c - 1, nrows, ncols)]]}

\* Faulty variant: the fallback `|| randomCyberpunkColor()` is missing.
fillRemainingCellsNoFallback(g, nrows, ncols) ==
    {[r \in 1..Len(g) |-> [c \in 1..Len(g[r]) |->
         IF g[r][c] # Null THEN g[r][c]
         ELSE findClosestColoredNeighbor(g, r - 1, c - 1, nrows, ncols)]]}

\* Every outcome of fillRemainingCells: a cell with no coloured cell in its
\* window takes a drawn palette colour.
fillRemainingCells(g, nrows, ncols) ==
    LET drawn == {p \in (1..Len(g)) \X (1..ncols) :
                     /\ p[2] <= Len(g[p[1]])
                     /\ g[p[1]][p[2]] = Null
                     /\ findClosestColoredNeighbor(g, p[1] - 1, p[2] - 1,
                                                   nrows, ncols) = Null}
    IN  {[r \in 1..Len(g) |-> [c \in 1..Len(g[r]) |->
             IF g[r][c] # Null THEN g[r][c]
             ELSE IF <<r, c>> \in drawn THEN draws[<<r, c>>]
             ELSE findClosestColoredNeighbor(g, r - 1, c - 1, nrows, ncols)]] :
            draws \in [drawn -> randomCyberpunkColor]}

\* Faulty variant: the comparisons are strict.
invalidDimensionsStrict(nrows, ncols) == nrows < 0 \/ ncols < 0

\* rows <= 0 || cols <= 0
invalidDimensions(nrows, ncols) == nrows <= 0 \/ ncols <= 0

\* Faulty variant: the loop runs on while no territory is active.
growthContinuesIdle(iter, maxIterations, active) == iter < maxIterations

\* iteration < maxIterations && activeCount > 0
growthContinues(iter, maxIterations, active) == iter < maxIterations /\ active > 0

\* Array.from({ length: rows }, () => Array(cols).fill(null))
nullGrid(nrows, ncols) == [r \in 1..nrows |-> [c \in 1..ncols |-> Null]]

\* Faulty variant: a seed cell already coloured keeps its colour.
RECURSIVE placeSeedsFirstWins(_, _)
placeSeedsFirstWins(g, terrs) ==
    IF terrs = <<>>
    THEN g
    ELSE LET seed == Head(terrs).cells[1]
         IN  placeSeedsFirstWins(
                 IF g[seed[1] + 1][seed[2] + 1] = Null
                 THEN paintCells(g, <<seed>>, Head(terrs).color)
                 ELSE g,
                 Tail(terrs))

\* territories.forEach: the seed cell of each territory takes its colour, a
\* later territory overwriting an earlier one on the same cell.
RECURSIVE placeSeeds(_, _)
placeSeeds(g, terrs) ==
    IF terrs = <<>>
    THEN g
    ELSE placeSeeds(paintCells(g, <<Head(terrs).cells[1]>>, Head(terrs).color),
                    Tail(terrs))

\* Every grid of nrows x ncols drawn palette colours.
randomGrids(nrows, ncols) == [1..nrows -> [1..ncols -> randomCyberpunkColor]]

\* ----------------------------------------------------------------- state
\* Every rectangular grid of at most MaxCells cells, the empty grid [] and
\* the grids of empty rows included.
Shapes == {s \in (0..MaxCells) \X (0..MaxCells) : s[1] * s[2] <= MaxCells}

Grids == UNION {[1..s[1] -> [1..s[2] -> GridColors]] : s \in Shapes}

\* Start positions: every valid one, and the invalid ones below, at and
\* beyond the bounds of the grid.
Coordinates(n) == -1..(n + 1)

\* No generator is called.
GenIdle ==
    /\ generator = "none"
    /\ genRows = 0
    /\ genCols = 0
    /\ organicness = 0
    /\ genPc = "idle"
    /\ zoneGrid = <<>>
    /\ territories = <<>>
    /\ iteration = 0
    /\ activeCount = 0
    /\ generated = <<>>

\* useRef(null): no timeout was set yet.  The hook only tests the ref for
\* truthiness, and the identifiers setTimeout returns are positive.
NoTimer == 0

\* The application is not mounted.
AppIdle ==
    /\ state = <<>>
    /\ effects = {}
    /\ stepCleanup = FALSE
    /\ animationTimeoutRef = NoTimer
    /\ timers = {}
    /\ calls = <<>>
    /\ completions = <<>>
    /\ fills = 0
    /\ generations = 0
    /\ events = 0

\* No helper function is called.
UtilIdle ==
    /\ utility = "none"
    /\ args = <<>>
    /\ argsCopy = <<>>
    /\ returnValue = Undefined

\* No primitive is called.
PrimIdle ==
    /\ primitive = "none"
    /\ returnedGrid = <<>>
    /\ sameArray = FALSE
    /\ value = Undefined
    /\ returnedCopy = <<>>
    /\ written = <<>>

Init ==
    /\ AppIdle
    /\ GenIdle
    /\ PrimIdle
    /\ UtilIdle
    /\ \E g \in Grids :
          /\ heap = g
          /\ grid = [i \in 1..Len(g) |-> i]
          /\ gridCopy = g
          /\ row \in Coordinates(Len(g))
          /\ col \in Coordinates(IF Len(g) > 0 THEN Len(g[1]) ELSE 0)
    /\ targetColor \in TargetColors
    /\ pc = "call"
    /\ levelGrid = <<>>
    /\ currentLevel = <<>>
    /\ originalColor = Undefined
    /\ visited = {}
    /\ rows = 0
    /\ cols = 0
    /\ snapshots = <<>>

\* floodFill, up to its return or its call of floodFillRecursive.
floodFill ==
    /\ pc = "call"
    /\ LET clone == cloneGrid(heap, grid)
           dims == getGridDimensions(heap, grid)
       IN  IF ~isValidPosition(heap, grid, row, col)
           THEN /\ heap' = clone.heap
                /\ snapshots' = <<clone.grid>>
                /\ pc' = "done"
                /\ UNCHANGED <<levelGrid, currentLevel, originalColor,
                               visited, rows, cols>>
           ELSE IF getCellColor(heap, grid, row, col) = targetColor
           THEN /\ heap' = clone.heap
                /\ snapshots' = <<clone.grid>>
                /\ originalColor' = getCellColor(heap, grid, row, col)
                /\ pc' = "done"
                /\ UNCHANGED <<levelGrid, currentLevel, visited, rows, cols>>
           ELSE /\ heap' = clone.heap
                /\ snapshots' = <<clone.grid>>
                /\ originalColor' = getCellColor(heap, grid, row, col)
                /\ rows' = dims.rows
                /\ cols' = dims.cols
                /\ visited' = {createPositionKey(row, col)}
                /\ currentLevel' = << <<row, col>> >>
                /\ levelGrid' = grid
                /\ pc' = "recursive"
    /\ UNCHANGED <<grid, row, col, targetColor, gridCopy>>
    /\ UNCHANGED <<genVars, primVars, utilVars, appVars>>

\* Faulty variant: the recursive call is handed the grid of this level instead of
\* the repainted one.
floodFillRecursiveStaleGrid ==
    /\ pc = "recursive"
    /\ LET keep(p) == shouldProcessCell(heap, levelGrid, p[1], p[2], originalColor)
           cellsToProcess == SelectSeq(currentLevel, keep)
           newGrid == processCellsAtLevel(heap, levelGrid, cellsToProcess, targetColor)
           clone == cloneGrid(newGrid.heap, newGrid.grid)
           next == nextLevel(cellsToProcess, visited, rows, cols)
       IN  IF Len(currentLevel) = 0 \/ Len(cellsToProcess) = 0
           THEN /\ pc' = "done"
                /\ UNCHANGED <<heap, levelGrid, currentLevel, visited, snapshots>>
           ELSE /\ heap' = clone.heap
                /\ snapshots' = Append(snapshots, clone.grid)
                /\ levelGrid' = levelGrid
                /\ currentLevel' = next.level
                /\ visited' = next.visited
                /\ pc' = "recursive"
    /\ UNCHANGED <<grid, row, col, targetColor, gridCopy, originalColor, rows, cols>>
    /\ UNCHANGED <<genVars, primVars, utilVars, appVars>>

\* One invocation of floodFillRecursive: it returns the snapshots, or
\* processes one level and calls itself with the new grid and next level.
floodFillRecursive ==
    /\ pc = "recursive"
    /\ LET keep(p) == shouldProcessCell(heap, levelGrid, p[1], p[2], originalColor)
           cellsToProcess == SelectSeq(currentLevel, keep)
           newGrid == processCellsAtLevel(heap, levelGrid, cellsToProcess, targetColor)
           clone == cloneGrid(newGrid.heap, newGrid.grid)
           next == nextLevel(cellsToProcess, visited, rows, cols)
       IN  IF Len(currentLevel) = 0 \/ Len(cellsToProcess) = 0
           THEN /\ pc' = "done"
                /\ UNCHANGED <<heap, levelGrid, currentLevel, visited, snapshots>>
           ELSE /\ heap' = clone.heap
                /\ snapshots' = Append(snapshots, clone.grid)
                /\ levelGrid' = newGrid.grid
                /\ currentLevel' = next.level
                /\ visited' = next.visited
                /\ pc' = "recursive"
    /\ UNCHANGED <<grid, row, col, targetColor, gridCopy, originalColor, rows, cols>>
    /\ UNCHANGED <<genVars, primVars, utilVars, appVars>>

Next == floodFill \/ floodFillRecursive

Spec == Init /\ [][Next]_vars

\* ------------------------------------------------- the generators' calls
\* No flood fill is running.
FillIdle ==
    /\ heap = <<>>
    /\ grid = <<>>
    /\ row = 0
    /\ col = 0
    /\ targetColor = Undefined
    /\ gridCopy = <<>>
    /\ pc = "idle"
    /\ levelGrid = <<>>
    /\ currentLevel = <<>>
    /\ originalColor = Undefined
    /\ visited = {}
    /\ rows = 0
    /\ cols = 0
    /\ snapshots = <<>>

\* The dimensions asked: non-positive ones, and positive ones of at most
\* MaxGenCells cells.
GenDimensions ==
    {d \in (-1..MaxGenCells) \X (-1..MaxGenCells) :
        d[1] <= 0 \/ d[2] <= 0 \/ d[1] * d[2] <= MaxGenCells}

GenInit ==
    /\ AppIdle
    /\ FillIdle
    /\ PrimIdle
    /\ UtilIdle
    /\ generator = "none"
    /\ \E d \in GenDimensions : genRows = d[1] /\ genCols = d[2]
    /\ organicness \in Organicness
    /\ genPc = "call"
    /\ zoneGrid = <<>>
    /\ territories = <<>>
    /\ iteration = 0
    /\ activeCount = 0
    /\ generated = <<>>

\* generateGrid(rows, cols)
generateGrid ==
    /\ genPc = "call"
    /\ generator' = "generateGrid"
    /\ IF invalidDimensions(genRows, genCols)
       THEN generated' = <<>>
       ELSE generated' \in randomGrids(genRows, genCols)
    /\ genPc' = "done"
    /\ UNCHANGED <<genRows, genCols, organicness, zoneGrid, territories,
                   iteration, activeCount>>
    /\ UNCHANGED <<fillVars, primVars, utilVars, appVars>>

\* generateGridWithZones(rows, cols, organicness), up to its early returns or
\* the entry of its growth loop.
generateGridWithZones ==
    /\ genPc = "call"
    /\ generator' = "generateGridWithZones"
    /\ IF invalidDimensions(genRows, genCols)
       THEN /\ generated' = <<>>
            /\ genPc' = "done"
            /\ UNCHANGED <<zoneGrid, territories, iteration, activeCount>>
       ELSE IF organicness = 0
       THEN /\ generated' \in randomGrids(genRows, genCols)
            /\ zoneGrid' = nullGrid(genRows, genCols)
            /\ genPc' = "done"
            /\ UNCHANGED <<territories, iteration, activeCount>>
       ELSE \E seeds \in createTerritorySeeds(
                    calculateTerritoryCount(genRows, genCols, organicness),
                    genRows, genCols) :
                /\ territories' = seeds
                /\ zoneGrid' = placeSeeds(nullGrid(genRows, genCols), seeds)
                /\ activeCount' = Len(seeds)
                /\ iteration' = 0
                /\ genPc' = "grow"
                /\ UNCHANGED generated
    /\ UNCHANGED <<genRows, genCols, organicness>>
    /\ UNCHANGED <<fillVars, primVars, utilVars, appVars>>

\* One evaluation of the growth loop's condition: one more iteration, or
\* the exit of the loop and the return of fillRemainingCells' result.
growthLoop ==
    /\ genPc = "grow"
    /\ IF growthContinues(iteration, genRows * genCols, activeCount)
       THEN \E result \in growTerritoriesIteration(zoneGrid, territories, genRows,
                                                   genCols, organicness) :
                /\ zoneGrid' = result.grid
                /\ territories' = result.territories
                /\ activeCount' = result.activeCount
                /\ iteration' = iteration + 1
                /\ UNCHANGED <<genPc, generated>>
       ELSE /\ generated' \in fillRemainingCells(zoneGrid, genRows, genCols)
            /\ genPc' = "done"
            /\ UNCHANGED <<zoneGrid, territories, activeCount, iteration>>
    /\ UNCHANGED <<generator, genRows, genCols, organicness>>
    /\ UNCHANGED <<fillVars, primVars, utilVars, appVars>>

GenNext == generateGrid \/ generateGridWithZones \/ growthLoop

GenSpec == GenInit /\ [][GenNext]_vars

\* ------------------------------------------- the grid primitives' calls
PrimShapes ==
    {s \in (0..MaxPrimCells) \X (0..MaxPrimCells) : s[1] * s[2] <= MaxPrimCells}

PrimGrids == UNION {[1..s[1] -> [1..s[2] -> GridColors]] : s \in PrimShapes}

\* The caller holds a grid, a position (valid or not) and a colour.
PrimInit ==
    /\ AppIdle
    /\ GenIdle
    /\ PrimIdle
    /\ UtilIdle
    /\ \E g \in PrimGrids :
          /\ heap = g
          /\ grid = [i \in 1..Len(g) |-> i]
          /\ gridCopy = g
          /\ row \in Coordinates(Len(g))
          /\ col \in Coordinates(IF Len(g) > 0 THEN Len(g[1]) ELSE 0)
    /\ targetColor \in TargetColors
    /\ pc = "call"
    /\ levelGrid = <<>>
    /\ currentLevel = <<>>
    /\ originalColor = Undefined
    /\ visited = {}
    /\ rows = 0
    /\ cols = 0
    /\ snapshots = <<>>

\* newGrid = setCellColor(grid, row, col, color)
callSetCellColor ==
    /\ pc = "call"
    /\ LET result == setCellColor(heap, grid, row, col, targetColor)
       IN  /\ heap' = result.heap
           /\ returnedGrid' = result.grid
           /\ returnedCopy' = Deref(result.heap, result.grid)
    /\ sameArray' = ~isValidPosition(heap, grid, row, col)
    /\ primitive' = "setCellColor"
    /\ pc' = "returned"
    /\ UNCHANGED <<value, written>>
    /\ UNCHANGED <<grid, row, col, targetColor, gridCopy, levelGrid, currentLevel,
                   originalColor, visited, rows, cols, snapshots>>
    /\ UNCHANGED <<genVars, utilVars, appVars>>

\* cloned = cloneGrid(grid)
callCloneGrid ==
    /\ pc = "call"
    /\ LET result == cloneGrid(heap, grid)
       IN  /\ heap' = result.heap
           /\ returnedGrid' = result.grid
           /\ returnedCopy' = Deref(result.heap, result.grid)
    /\ sameArray' = FALSE
    /\ primitive' = "cloneGrid"
    /\ pc' = "returned"
    /\ UNCHANGED <<value, written>>
    /\ UNCHANGED <<grid, row, col, targetColor, gridCopy, levelGrid, currentLevel,
                   originalColor, visited, rows, cols, snapshots>>
    /\ UNCHANGED <<genVars, utilVars, appVars>>

\* getCellColor(grid, row, col)
callGetCellColor ==
    /\ pc = "call"
    /\ value' = getCellColor(heap, grid, row, col)
    /\ primitive' = "getCellColor"
    /\ pc' = "returned"
    /\ UNCHANGED <<returnedGrid, sameArray, returnedCopy, written>>
    /\ UNCHANGED <<heap, grid, row, col, targetColor, gridCopy, levelGrid,
                   currentLevel, originalColor, visited, rows, cols, snapshots>>
    /\ UNCHANGED <<genVars, utilVars, appVars>>

\* isValidPosition(grid, row, col)
callIsValidPosition ==
    /\ pc = "call"
    /\ value' = isValidPosition(heap, grid, row, col)
    /\ primitive' = "isValidPosition"
    /\ pc' = "returned"
    /\ UNCHANGED <<returnedGrid, sameArray, returnedCopy, written>>
    /\ UNCHANGED <<heap, grid, row, col, targetColor, gridCopy, levelGrid,
                   currentLevel, originalColor, visited, rows, cols, snapshots>>
    /\ UNCHANGED <<genVars, utilVars, appVars>>

\* The write g[r][c] = '#FFFFFF' goes into the row object g[r].
writeCell(h, g, r, c) == [h EXCEPT ![g[r + 1]][c + 1] = WrittenColor]

\* The caller writes a cell of the grid returned: newGrid[r][c] = '#FFFFFF'.
writeReturned ==
    /\ pc = "returned"
    /\ primitive \in {"setCellColor", "cloneGrid"}
    /\ \E r \in 0..(Len(returnedGrid) - 1) :
          \E c \in 0..(Len(heap[returnedGrid[r + 1]]) - 1) :
             /\ heap' = writeCell(heap, returnedGrid, r, c)
             /\ written' = <<"returned", r, c>>
    /\ pc' = "written"
    /\ UNCHANGED <<primitive, returnedGrid, sameArray, value, returnedCopy>>
    /\ UNCHANGED <<grid, row, col, targetColor, gridCopy, levelGrid, currentLevel,
                   originalColor, visited, rows, cols, snapshots>>
    /\ UNCHANGED <<genVars, utilVars, appVars>>

\* The caller writes a cell of the grid it passed: grid[r][c] = '#FFFFFF'.
writeSource ==
    /\ pc = "returned"
    /\ primitive \in {"setCellColor", "cloneGrid"}
    /\ \E r \in 0..(Len(grid) - 1) :
          \E c \in 0..(Len(heap[grid[r + 1]]) - 1) :
             /\ heap' = writeCell(heap, grid, r, c)
             /\ written' = <<"source", r, c>>
    /\ pc' = "written"
    /\ UNCHANGED <<primitive, returnedGrid, sameArray, value, returnedCopy>>
    /\ UNCHANGED <<grid, row, col, targetColor, gridCopy, levelGrid, currentLevel,
                   originalColor, visited, rows, cols, snapshots>>
    /\ UNCHANGED <<genVars, utilVars, appVars>>

PrimNext ==
    \/ callSetCellColor
    \/ callCloneGrid
    \/ callGetCellColor
    \/ callIsValidPosition
    \/ writeReturned
    \/ writeSource

PrimSpec == PrimInit /\ [][PrimNext]_vars

\* ------------------------------------------------------ helper functions
\* Faulty variant: Math.max(1, ...) is missing.
calculateGridDimensionsNoMinimum(availableWidth, availableHeight, cellSize) ==
    [rows |-> availableHeight \div cellSize, cols |-> availableWidth \div cellSize]

\* Math.floor(a / b) of integers a and b > 0 is the floored quotient.
calculateGridDimensions(availableWidth, availableHeight, cellSize) ==
    [rows |-> Max(1, availableHeight \div cellSize),
     cols |-> Max(1, availableWidth \div cellSize)]

\* Faulty variant: the column is tested before the row.
determineFlipDirectionColumnFirst(r, c, totalRows, totalCols) ==
    LET gridCenterRow == totalRows \div 2
        gridCenterCol == totalCols \div 2
    IN  IF c < gridCenterCol THEN "left"
        ELSE IF c > gridCenterCol THEN "right"
        ELSE IF r < gridCenterRow THEN "up"
        ELSE IF r > gridCenterRow THEN "down"
        ELSE "center"

determineFlipDirection(r, c, totalRows, totalCols) ==
    LET gridCenterRow == totalRows \div 2
        gridCenterCol == totalCols \div 2
    IN  IF r < gridCenterRow THEN "up"
        ELSE IF r > gridCenterRow THEN "down"
        ELSE IF c < gridCenterCol THEN "left"
        ELSE IF c > gridCenterCol THEN "right"
        ELSE "center"

\* row.forEach((cell, c) => ...): display[r][c] = cell where display has a
\* row r and that row has a cell c.
RECURSIVE mergeRow(_, _, _, _, _)
mergeRow(h, display, snapshotRow, r, c) ==
    IF c >= Len(snapshotRow)
    THEN h
    ELSE mergeRow(IF r + 1 \in DOMAIN display /\ c + 1 \in DOMAIN h[display[r + 1]]
                  THEN [h EXCEPT ![display[r + 1]][c + 1] = snapshotRow[c + 1]]
                  ELSE h,
                  display, snapshotRow, r, c + 1)

\* snapshot.forEach((row, r) => ...)
RECURSIVE mergeRows(_, _, _, _)
mergeRows(h, display, snapshot, r) ==
    IF r >= Len(snapshot)
    THEN h
    ELSE mergeRows(mergeRow(h, display, h[snapshot[r + 1]], r, 0),
                   display, snapshot, r + 1)

\* Faulty variant: display is the base grid itself, not a copy of it.
createDisplayGridInPlace(h, baseGrid, snapshot) ==
    [heap |-> mergeRows(h, baseGrid, snapshot, 0), grid |-> baseGrid]

createDisplayGrid(h, baseGrid, snapshot) ==
    LET display == [heap |-> h \o [i \in 1..Len(baseGrid) |-> h[baseGrid[i]]],
                    grid |-> [i \in 1..Len(baseGrid) |-> Len(h) + i]]
    IN  [heap |-> mergeRows(display.heap, display.grid, snapshot, 0),
         grid |-> display.grid]

mergeGrids(h, baseGrid, snapshot) == createDisplayGrid(h, baseGrid, snapshot)

\* Grids as values (sequences of sequences of colours), positions 0-based.
NumRows(v) == Len(v)
NumCols(v) == IF Len(v) = 0 THEN 0 ELSE Len(v[1])
Cells(v) == {p \in (0..(NumRows(v) - 1)) \X (0..(NumCols(v) - 1)) : TRUE}
At(v, p) == v[p[1] + 1][p[2] + 1]
SameShape(a, b) ==
    /\ Len(a) = Len(b)
    /\ \A i \in 1..Len(a) : Len(a[i]) = Len(b[i])
\* The cells in which grid a differs from grid b.
Diff(a, b) == {p \in Cells(b) : At(a, p) # At(b, p)}

Adjacent(p, q) ==
    \/ p[1] = q[1] /\ (p[2] = q[2] + 1 \/ q[2] = p[2] + 1)
    \/ p[2] = q[2] /\ (p[1] = q[1] + 1 \/ q[1] = p[1] + 1)

\* The 4-connected component of start in v: the least set holding start and
\* closed under stepping to an adjacent cell of start's colour.
RECURSIVE Closure(_, _, _)
Closure(v, color, S) ==
    LET T == S \cup {p \in Cells(v) : /\ At(v, p) = color
                                      /\ \E q \in S : Adjacent(p, q)}
    IN  IF T = S THEN S ELSE Closure(v, color, T)
Component(v, start) == Closure(v, At(v, start), {start})


\* ------------------------------------------------- the final fill's inputs
\* The grids that reach fillRemainingCells hold null and territory colours.
\* Every territory is 4-connected and of one colour, and there are at least
\* two of them for an organicness of 1..100 and none at all for some above
\* 100: the grids drawn below are those whose coloured cells make at most
\* two such groups, the grid of nulls included.
MaxFillCells == 5

FillShapes ==
    {s \in (1..MaxFillCells) \X (1..MaxFillCells) : s[1] * s[2] <= MaxFillCells}

Colored(v) == {p \in Cells(v) : At(v, p) # Null}

GrownGrids ==
    {v \in UNION {[1..s[1] -> [1..s[2] -> {Null} \cup randomCyberpunkColor]] :
                     s \in FillShapes} :
        Cardinality({Component(v, p) : p \in Colored(v)}) <= 2}

\* ------------------------------------------------ the helper functions' calls
Extents == 0..MaxExtent
Clicks == -1..(MaxExtent + 1)

FlipArgs == [row : Clicks, col : Clicks, totalRows : Extents, totalCols : Extents]

DimensionArgs ==
    [availableWidth : -1..MaxAvailable, availableHeight : -1..MaxAvailable,
     cellSize : 1..MaxCellSize]

\* Positive dimensions and the organicness values that reach
\* calculateTerritoryCount within the documented range.
CountArgs ==
    {a \in [rows : 1..MaxCountCells, cols : 1..MaxCountCells, organicness : 1..100] :
        a.rows * a.cols <= MaxCountCells}

\* A documented organicness and a value of |perlinNoise|, in thousandths.
GrowthArgs == [noise : NoiseDraws, organicness : 0..100]

DisplayShapes ==
    {s \in (0..MaxDisplayCells) \X (0..MaxDisplayCells) :
        s[1] * s[2] <= MaxDisplayCells}

DisplayGrids(colors) == UNION {[1..s[1] -> [1..s[2] -> colors]] : s \in DisplayShapes}

\* The caller holds the arguments of the helper it is about to call.
UtilInit ==
    /\ AppIdle
    /\ GenIdle
    /\ PrimIdle
    /\ grid = <<>>
    /\ row = 0
    /\ col = 0
    /\ targetColor = Undefined
    /\ gridCopy = <<>>
    /\ pc = "call"
    /\ levelGrid = <<>>
    /\ currentLevel = <<>>
    /\ originalColor = Undefined
    /\ visited = {}
    /\ rows = 0
    /\ cols = 0
    /\ snapshots = <<>>
    /\ returnValue = Undefined
    /\ \/ /\ utility \in {"determineFlipDirection", "getNeighbors"}
          /\ args \in FlipArgs
          /\ argsCopy = <<>>
          /\ heap = <<>>
       \/ /\ utility = "calculateGridDimensions"
          /\ args \in DimensionArgs
          /\ argsCopy = <<>>
          /\ heap = <<>>
       \/ /\ utility = "calculateTerritoryCount"
          /\ args \in CountArgs
          /\ argsCopy = <<>>
          /\ heap = <<>>
       \/ /\ utility \in {"createDisplayGrid", "mergeGrids"}
          /\ \E b \in DisplayGrids(GridColors), s \in DisplayGrids(TargetColors) :
                /\ heap = b \o s
                /\ args = [baseGrid |-> [i \in 1..Len(b) |-> i],
                           snapshot |-> [i \in 1..Len(s) |-> Len(b) + i]]
                /\ argsCopy = [baseGrid |-> b, snapshot |-> s]
       \/ /\ utility = "calculateGrowthProbability"
          /\ args \in GrowthArgs
          /\ argsCopy = <<>>
          /\ heap = <<>>
       \/ /\ utility = "fillRemainingCells"
          /\ \E v \in GrownGrids :
                args = [grid |-> v, rows |-> NumRows(v), cols |-> NumCols(v)]
          /\ argsCopy = <<>>
          /\ heap = <<>>

callDetermineFlipDirection ==
    /\ pc = "call"
    /\ utility = "determineFlipDirection"
    /\ returnValue' = determineFlipDirection(args.row, args.col, args.totalRows,
                                             args.totalCols)
    /\ pc' = "returned"
    /\ UNCHANGED <<utility, args, argsCopy>>
    /\ UNCHANGED <<heap, grid, row, col, targetColor, gridCopy, levelGrid,
                   currentLevel, originalColor, visited, rows, cols, snapshots>>
    /\ UNCHANGED <<genVars, primVars, appVars>>

callGetNeighbors ==
    /\ pc = "call"
    /\ utility = "getNeighbors"
    /\ returnValue' = getNeighbors(args.totalRows, args.totalCols, args.row, args.col)
    /\ pc' = "returned"
    /\ UNCHANGED <<utility, args, argsCopy>>
    /\ UNCHANGED <<heap, grid, row, col, targetColor, gridCopy, levelGrid,
                   currentLevel, originalColor, visited, rows, cols, snapshots>>
    /\ UNCHANGED <<genVars, primVars, appVars>>

callCalculateGridDimensions ==
    /\ pc = "call"
    /\ utility = "calculateGridDimensions"
    /\ returnValue' = calculateGridDimensions(args.availableWidth,
                                              args.availableHeight, args.cellSize)
    /\ pc' = "returned"
    /\ UNCHANGED <<utility, args, argsCopy>>
    /\ UNCHANGED <<heap, grid, row, col, targetColor, gridCopy, levelGrid,
                   currentLevel, originalColor, visited, rows, cols, snapshots>>
    /\ UNCHANGED <<genVars, primVars, appVars>>

callCalculateTerritoryCount ==
    /\ pc = "call"
    /\ utility = "calculateTerritoryCount"
    /\ returnValue' = calculateTerritoryCount(args.rows, args.cols, args.organicness)
    /\ pc' = "returned"
    /\ UNCHANGED <<utility, args, argsCopy>>
    /\ UNCHANGED <<heap, grid, row, col, targetColor, gridCopy, levelGrid,
                   currentLevel, originalColor, visited, rows, cols, snapshots>>
    /\ UNCHANGED <<genVars, primVars, appVars>>

callCreateDisplayGrid ==
    /\ pc = "call"
    /\ utility = "createDisplayGrid"
    /\ LET display == createDisplayGrid(heap, args.baseGrid, args.snapshot)
       IN  /\ heap' = display.heap
           /\ returnValue' = display.grid
    /\ pc' = "returned"
    /\ UNCHANGED <<utility, args, argsCopy>>
    /\ UNCHANGED <<grid, row, col, targetColor, gridCopy, levelGrid,
                   currentLevel, originalColor, visited, rows, cols, snapshots>>
    /\ UNCHANGED <<genVars, primVars, appVars>>

callMergeGrids ==
    /\ pc = "call"
    /\ utility = "mergeGrids"
    /\ LET merged == mergeGrids(heap, args.baseGrid, args.snapshot)
       IN  /\ heap' = merged.heap
           /\ returnValue' = merged.grid
    /\ pc' = "returned"
    /\ UNCHANGED <<utility, args, argsCopy>>
    /\ UNCHANGED <<grid, row, col, targetColor, gridCopy, levelGrid,
                   currentLevel, originalColor, visited, rows, cols, snapshots>>
    /\ UNCHANGED <<genVars, primVars, appVars>>

callCalculateGrowthProbability ==
    /\ pc = "call"
    /\ utility = "calculateGrowthProbability"
    /\ returnValue' = calculateGrowthProbability(args.noise, args.organicness)
    /\ pc' = "returned"
    /\ UNCHANGED <<utility, args, argsCopy>>
    /\ UNCHANGED <<heap, grid, row, col, targetColor, gridCopy, levelGrid,
                   currentLevel, originalColor, visited, rows, cols, snapshots>>
    /\ UNCHANGED <<genVars, primVars, appVars>>

\* The grids are immutable values here: fillRemainingCells builds its result
\* with map and writes into no array.
callFillRemainingCells ==
    /\ pc = "call"
    /\ utility = "fillRemainingCells"
    /\ returnValue' \in fillRemainingCells(args.grid, args.rows, args.cols)
    /\ pc' = "returned"
    /\ UNCHANGED <<utility, args, argsCopy>>
    /\ UNCHANGED <<heap, grid, row, col, targetColor, gridCopy, levelGrid,
                   currentLevel, originalColor, visited, rows, cols, snapshots>>
    /\ UNCHANGED <<genVars, primVars, appVars>>

UtilNext ==
    \/ callDetermineFlipDirection
    \/ callGetNeighbors
    \/ callCalculateGridDimensions
    \/ callCalculateTerritoryCount
    \/ callCreateDisplayGrid
    \/ callMergeGrids
    \/ callFillRemainingCells
    \/ callCalculateGrowthProbability

UtilSpec == UtilInit /\ [][UtilNext]_vars

\* ------------------------------------------------- vocabulary of the claims
Start == <<row, col>>
ValidStart == Start \in Cells(gridCopy)
Returned == pc = "done"
Snap(i) == Deref(heap, snapshots[i])
LastSnap == Snap(Len(snapshots))
\* A fill that repaints: valid start, target colour other than the start's.
RealFill == ValidStart /\ At(gridCopy, Start) # targetColor
RowsOf(g) == Range(g)

\* ------------------------------------------------------------------ claims
\* C1 (connectivity): after a fill from a valid start with a target colour
\* other than the start's, the cells in which the last snapshot differs from
\* the input grid are exactly the 4-connected component of the start cell's
\* original colour that contains the start cell.
C1_Connectivity ==
    (Returned /\ RealFill) =>
        /\ SameShape(LastSnap, gridCopy)
        /\ Diff(LastSnap, gridCopy) = Component(gridCopy, Start)

\* A finished fill of a component of at least four cells that is reached
\* round a corner, with a cell of the same colour left outside it.
C1_Witness ==
    /\ Returned /\ RealFill
    /\ Cardinality(Component(gridCopy, Start)) >= 4
    /\ Len(snapshots) >= 5
    /\ \E p \in Cells(gridCopy) :
          /\ At(gridCopy, p) = At(gridCopy, Start)
          /\ p \notin Component(gridCopy, Start)
    /\ Diff(LastSnap, gridCopy) = Component(gridCopy, Start)

\* C2 (immutability): the grid passed to floodFill holds, in every state of
\* the call and after it, the colours it held before the call, whatever the
\* position and the target colour.
C2_InputUnchanged == Deref(heap, grid) = gridCopy

\* A finished fill that repainted cells, with the input grid as it was.
C2_Witness ==
    /\ Returned
    /\ Len(snapshots) >= 3
    /\ LastSnap # gridCopy
    /\ Deref(heap, grid) = gridCopy

\* C3 (monotonic growth): in the returned snapshots s0..sn, the cells in
\* which s_i differs from s0 are among those in which s_(i+1) differs from s0.
C3_MonotonicGrowth ==
    Returned =>
        \A i \in 1..(Len(snapshots) - 1) :
            Diff(Snap(i), Snap(1)) \subseteq Diff(Snap(i + 1), Snap(1))

\* A returned list of at least four snapshots, the third already differing
\* from the first.
C3_Witness ==
    /\ Returned
    /\ Len(snapshots) >= 4
    /\ Diff(Snap(3), Snap(1)) # {}
    /\ Diff(Snap(3), Snap(1)) \subseteq Diff(Snap(4), Snap(1))

\* C4 (initial snapshot): on every return path the snapshot list is
\* non-empty and its element 0 equals the input grid as it was before the
\* fill.
C4_FirstSnapshotIsInput ==
    Returned => (Len(snapshots) >= 1 /\ Snap(1) = gridCopy)

\* A finished fill of a grid of several different rows whose last snapshot
\* was repainted while the first still equals the input.
C4_Witness ==
    /\ Returned /\ RealFill
    /\ Len(gridCopy) >= 2
    /\ gridCopy[1] # gridCopy[2]
    /\ Len(snapshots) >= 2
    /\ LastSnap # gridCopy
    /\ Snap(1) = gridCopy

\* C5 (strict growth): a fill from a valid start with a target colour other
\* than the start's returns at least 2 snapshots, and every snapshot after
\* the first has strictly more repainted cells than its predecessor.
C5_StrictGrowth ==
    (Returned /\ RealFill) =>
        /\ Len(snapshots) >= 2
        /\ \A i \in 1..(Len(snapshots) - 1) :
              /\ Diff(Snap(i), gridCopy) \subseteq Diff(Snap(i + 1), gridCopy)
              /\ Cardinality(Diff(Snap(i + 1), gridCopy))
                    > Cardinality(Diff(Snap(i), gridCopy))
              /\ \A p \in Diff(Snap(i + 1), gridCopy) :
                    At(Snap(i + 1), p) = targetColor

\* A finished fill towards a colour the grid already holds next to the
\* filled region, over at least three levels.
C5_Witness ==
    /\ Returned /\ RealFill
    /\ Len(snapshots) >= 4
    /\ \E p \in Cells(gridCopy) :
          /\ At(gridCopy, p) = targetColor
          /\ \E q \in Component(gridCopy, Start) : Adjacent(p, q)
    /\ Cardinality(Diff(Snap(4), gridCopy)) > Cardinality(Diff(Snap(3), gridCopy))

\* C6 (single target colour): in every snapshot every cell holds the colour
\* it has in the input grid or targetColor.
C6_InputOrTargetColor ==
    \A i \in 1..Len(snapshots) :
        /\ SameShape(Snap(i), gridCopy)
        /\ \A p \in Cells(gridCopy) :
              At(Snap(i), p) \in {At(gridCopy, p), targetColor}

\* A finished fill to a colour absent from the input, in a grid of two
\* colours, part of which is repainted and part kept.
C6_Witness ==
    /\ Returned /\ RealFill
    /\ targetColor \notin {At(gridCopy, p) : p \in Cells(gridCopy)}
    /\ \E p, q \in Cells(gridCopy) :
          /\ At(LastSnap, p) = targetColor
          /\ At(LastSnap, q) = At(gridCopy, q)
          /\ At(gridCopy, q) # At(gridCopy, Start)
          /\ p[1] = q[1]

\* C7 (independent snapshots): on every return path no row object of a
\* returned snapshot is a row object of another returned snapshot or of the
\* caller's grid.
C7_NoSharedRows ==
    Returned =>
        \A i \in 1..Len(snapshots) :
            /\ RowsOf(snapshots[i]) \cap RowsOf(grid) = {}
            /\ \A j \in 1..Len(snapshots) :
                  i # j => RowsOf(snapshots[i]) \cap RowsOf(snapshots[j]) = {}

\* A finished fill of several snapshots whose working grid still shares a
\* row object with the caller's grid, while no snapshot does.
C7_Witness ==
    /\ Returned
    /\ Len(snapshots) >= 3
    /\ RowsOf(levelGrid) \cap RowsOf(grid) # {}
    /\ \A i \in 1..Len(snapshots) : RowsOf(snapshots[i]) \cap RowsOf(grid) = {}

\* C8 (no-op fill): when the start is valid and its colour already equals
\* targetColor, exactly one snapshot is returned and it equals the input grid.
C8_NoOpFill ==
    (Returned /\ ValidStart /\ At(gridCopy, Start) = targetColor) =>
        (Len(snapshots) = 1 /\ Snap(1) = gridCopy)

\* A returned no-op fill on a start cell that has a neighbour of its colour.
C8_Witness ==
    /\ Returned /\ ValidStart
    /\ At(gridCopy, Start) = targetColor
    /\ Cardinality(Component(gridCopy, Start)) >= 2
    /\ Len(snapshots) = 1

\* C9 (bounds safety): for a start position that is not valid for the grid,
\* and for the empty grid, floodFill returns exactly one snapshot, equal to
\* the input grid.
C9_InvalidStart ==
    (Returned /\ ~ValidStart) => (Len(snapshots) = 1 /\ Snap(1) = gridCopy)

\* A returned fill whose start is just past the last column of a non-empty
\* grid.
C9_Witness ==
    /\ Returned
    /\ NumRows(gridCopy) >= 1 /\ NumCols(gridCopy) >= 2
    /\ row = 0 /\ col = NumCols(gridCopy)
    /\ Len(snapshots) = 1

\* The cells repainted so far, in the working grid of the recursion.
Painted == IF pc = "call" THEN {} ELSE Diff(LastSnap, gridCopy)

\* C10 (termination): every step of the fill keeps the visited set growing
\* and within rows * cols positions, and every level repaints at least one
\* more cell or ends the fill; the repainted cells being at most rows * cols,
\* at most rows * cols levels are processed and at most rows * cols + 1
\* snapshots exist.
C10_Termination ==
    [][/\ visited \subseteq visited'
       /\ Cardinality(visited') <= NumRows(gridCopy) * NumCols(gridCopy)
       /\ pc = "recursive" =>
             (pc' = "done" \/ Cardinality(Painted') > Cardinality(Painted))
       /\ Cardinality(Painted') <= NumRows(gridCopy) * NumCols(gridCopy)
       /\ Len(snapshots') <= NumRows(gridCopy) * NumCols(gridCopy) + 1]_vars

\* A finished fill that took as many levels as the grid has cells and
\* visited every cell.
C10_Witness ==
    /\ Returned /\ RealFill
    /\ Cardinality(Cells(gridCopy)) >= 4
    /\ Len(snapshots) = Cardinality(Cells(gridCopy)) + 1
    /\ Cardinality(visited) = Cardinality(Cells(gridCopy))

\* ------------------------------------------------ claims on the generator
GenReturned == genPc = "done"
Zones == generator = "generateGridWithZones"
PositiveDimensions == genRows > 0 /\ genCols > 0
\* The returned grid has rows x cols cells and none is null or undefined.
Populated ==
    /\ Len(generated) = genRows
    /\ \A r \in 1..Len(generated) :
          /\ Len(generated[r]) = genCols
          /\ \A c \in 1..Len(generated[r]) :
                generated[r][c] \notin {Null, Undefined}

\* C11 (generator completeness): for positive rows and cols and organicness
\* in 0..100, whatever the draws, generateGridWithZones returns a grid of
\* exactly rows rows of cols cells, none of them null or undefined.
C11_GeneratorComplete ==
    (GenReturned /\ Zones /\ PositiveDimensions /\ organicness \in 0..100)
        => Populated

\* A returned grid whose growth ended with an unclaimed cell.
C11_Witness ==
    /\ GenReturned /\ Zones /\ PositiveDimensions
    /\ organicness \in 1..100
    /\ \E r \in 1..Len(zoneGrid) : \E c \in 1..Len(zoneGrid[r]) :
          zoneGrid[r][c] = Null
    /\ Populated

\* C12 (non-positive dimensions): generateGridWithZones and generateGrid
\* return the empty grid whenever rows <= 0 or cols <= 0, for any organicness.
C12_EmptyForNoDimensions ==
    (GenReturned /\ (genRows <= 0 \/ genCols <= 0)) => generated = <<>>

\* A return of generateGridWithZones for positive rows and zero columns.
C12_Witness ==
    /\ GenReturned /\ Zones
    /\ genRows > 0 /\ genCols = 0
    /\ generated = <<>>

Admitting ==
    {i \in 1..Len(territories) :
        Len(territories'[i].cells) > Len(territories[i].cells)}

\* C14 (termination of the growth): every pass of the growth loop adds one
\* to the iteration counter, which never exceeds rows * cols; the loop goes
\* on only while the last iteration admitted a cell, and is left as soon as
\* none did.
C14_GrowthLoopTerminates ==
    [][genPc = "grow" =>
          /\ iteration' <= genRows * genCols
          /\ genPc' = "grow" =>
                /\ iteration' = iteration + 1
                /\ activeCount > 0
                /\ activeCount' = Cardinality(Admitting)
          /\ (activeCount = 0 \/ iteration >= genRows * genCols) =>
                (genPc' = "done" /\ iteration' = iteration)]_vars

\* A return after two iterations, the second of which admitted no cell,
\* before the bound rows * cols was reached.
C14_Witness ==
    /\ GenReturned /\ Zones
    /\ iteration = 2
    /\ iteration < genRows * genCols
    /\ activeCount = 0
    /\ \E i \in 1..Len(territories) : Len(territories[i].cells) >= 2

\* ------------------------------------------------ claims: territories
\* The generator's grid during growth, as positions 0-based.
Growing == Zones /\ genPc = "grow"
Grown == Zones /\ genPc \in {"grow", "done"} /\ territories # <<>>
Territories == 1..Len(territories)
Seed(i) == territories[i].cells[1]
CellsOf(i) == Range(territories[i].cells)
\* The cells a territory admitted by growth: all but its seed.
GrownCells(i) == {territories[i].cells[k] : k \in 2..Len(territories[i].cells)}
\* The cells territory i admits in the step.
Admitted(i) ==
    {territories'[i].cells[k] :
        k \in (Len(territories[i].cells) + 1)..Len(territories'[i].cells)}
\* The step is one growth iteration.
Iteration == Growing /\ iteration' = iteration + 1

\* C26: a growth iteration paints a cell only if it is unfilled when it is
\* admitted: no coloured cell changes colour, every admitted cell was null
\* and takes the colour of the territory admitting it, and no cell is
\* admitted twice, by one territory or by two.
C26_OnlyUnfilledCellsPainted ==
    [][Iteration =>
          /\ \A p \in Cells(zoneGrid) :
                At(zoneGrid, p) # Null => At(zoneGrid', p) = At(zoneGrid, p)
          /\ \A i \in Territories :
                /\ Len(territories'[i].cells)
                       = Len(territories[i].cells) + Cardinality(Admitted(i))
                /\ \A p \in Admitted(i) :
                      /\ At(zoneGrid, p) = Null
                      /\ At(zoneGrid', p) = territories[i].color
                      /\ \A j \in Territories \ {i} : p \notin Admitted(j)
          /\ \A p \in Cells(zoneGrid) :
                (At(zoneGrid, p) = Null /\ At(zoneGrid', p) # Null) =>
                    \E i \in Territories : p \in Admitted(i)]_vars

\* Two territories have grown next to each other and a cell is still null.
C26_Witness ==
    /\ Growing
    /\ iteration >= 1
    /\ \E i, j \in Territories :
          /\ i # j
          /\ GrownCells(i) # {}
          /\ territories[i].color # territories[j].color
          /\ \E p \in GrownCells(i) : Adjacent(p, Seed(j))

\* C27 as claimed: from seed placement to the end of growth, every position
\* in a territory's cells holds that territory's colour, and no position is
\* in the cells of two territories.
C27_TerritoriesDisjoint ==
    Grown =>
        /\ \A i \in Territories : \A p \in CellsOf(i) :
               At(zoneGrid, p) = territories[i].color
        /\ \A i, j \in Territories : i # j => CellsOf(i) \cap CellsOf(j) = {}

\* C27 as amended: from seed placement to the end of growth, every cell a
\* territory admitted by growth holds that territory's colour and is in the
\* cells of no other territory, and no position is twice in the cells of
\* one territory; seed cells, drawn independently, may be shared, and a seed
\* cell holds the colour of the last territory seeded on it.
C27_GrownCellsDisjoint ==
    Grown =>
        \A i \in Territories :
            /\ Cardinality(CellsOf(i)) = Len(territories[i].cells)
            /\ \A p \in GrownCells(i) :
                  /\ At(zoneGrid, p) = territories[i].color
                  /\ \A j \in Territories \ {i} : p \notin CellsOf(j)
            /\ LET last == CHOOSE j \in Territories :
                                /\ Seed(j) = Seed(i)
                                /\ \A k \in Territories : Seed(k) = Seed(i) => k <= j
               IN  At(zoneGrid, Seed(i)) = territories[last].color

\* Two territories of different colours seeded on one cell, one of which
\* has grown.
C27_Witness ==
    /\ Grown
    /\ \E i, j \in Territories :
          /\ i < j
          /\ Seed(i) = Seed(j)
          /\ territories[i].color # territories[j].color
          /\ GrownCells(i) # {}

\* The cells of S reachable from the cells of R by steps between adjacent
\* cells of S.
RECURSIVE ConnectedFrom(_, _)
ConnectedFrom(S, R) ==
    LET T == R \cup {p \in S : \E q \in R : Adjacent(p, q)}
    IN  IF T = R THEN R ELSE ConnectedFrom(S, T)

\* C28: after seeding and after every growth iteration, the cells of each
\* territory are a 4-connected set holding its seed cell, and each position
\* of its frontier is one of its cells.
C28_TerritoriesContiguous ==
    Grown =>
        \A i \in Territories :
            /\ Seed(i) \in CellsOf(i)
            /\ ConnectedFrom(CellsOf(i), {Seed(i)}) = CellsOf(i)
            /\ Range(territories[i].frontier)
                   \subseteq {createPositionKey(p[1], p[2]) : p \in CellsOf(i)}

\* A territory of three cells after two iterations, with a frontier.
C28_Witness ==
    /\ Growing
    /\ \E i \in Territories :
          /\ Len(territories[i].cells) >= 3
          /\ territories[i].frontier # <<>>

\* C29: a territory whose frontier is empty is sealed: a later iteration
\* leaves its cells and its empty frontier as they are, it admits no cell.
C29_SealedTerritory ==
    [][Iteration =>
          \A i \in Territories :
              territories[i].frontier = <<>> =>
                  /\ territories'[i] = territories[i]
                  /\ Admitted(i) = {}]_vars

\* After two iterations, a territory that never grew, next to a null cell.
C29_Witness ==
    /\ Growing
    /\ iteration >= 2
    /\ \E i \in Territories :
          /\ territories[i].frontier = <<>>
          /\ Len(territories[i].cells) = 1
          /\ \E p \in Cells(zoneGrid) :
                At(zoneGrid, p) = Null /\ Adjacent(p, Seed(i))

\* ------------------------------------------------ claims: level grouping
\* The cells of start's component ring by ring: Rings(...)[k + 1] holds the
\* cells whose shortest path from start inside the component has k steps.
RECURSIVE RingsFrom(_, _, _, _, _)
RingsFrom(v, color, seen, ring, acc) ==
    IF ring = {}
    THEN acc
    ELSE LET next == {p \in Cells(v) \ seen : /\ At(v, p) = color
                                               /\ \E q \in ring : Adjacent(p, q)}
         IN  RingsFrom(v, color, seen \cup next, next, Append(acc, ring))

Rings(v, start) == RingsFrom(v, At(v, start), {start}, {start}, <<>>)

\* C25: for a valid start and a different target colour, each snapshot
\* after the first differs from the one before it exactly on the cells of
\* the start's component at one distance from the start, 0 for the second
\* snapshot, 1 for the third and so on, so each cell is repainted in one
\* level only; the snapshots number 2 plus the largest distance.
C25_LevelGrouping ==
    (Returned /\ RealFill) =>
        LET rings == Rings(gridCopy, Start)
        IN  /\ Len(snapshots) = 1 + Len(rings)
            /\ \A k \in 1..Len(rings) :
                   k + 1 <= Len(snapshots) =>
                       Diff(Snap(k + 1), Snap(k)) = rings[k]

C25_Witness ==
    /\ Returned
    /\ RealFill
    /\ Len(snapshots) >= 4
    /\ Cardinality(Rings(gridCopy, Start)[2]) >= 2
    /\ Component(gridCopy, Start) # Cells(gridCopy)

\* ------------------------------------------------ claims: grid primitives
PrimReturned(name) == primitive = name /\ pc = "returned"
Wrote(name, which) == primitive = name /\ pc = "written" /\ written[1] = which
Position == <<row, col>>
ValidPosition == Position \in Cells(gridCopy)
Input == Deref(heap, grid)
Result == Deref(heap, returnedGrid)

\* C15: for a valid position, the grid returned by setCellColor shares no
\* row storage with the input grid: whichever row of the result the caller
\* writes a cell of, modified or not, the input grid stays as it was.
C15_NoSharedRowStorage ==
    (Wrote("setCellColor", "returned") /\ ValidPosition) => Input = gridCopy

\* C16: for a valid position, setCellColor returns a grid of the same shape
\* that holds the colour at (row, col) and the input's colour everywhere
\* else, and the input grid's cells are what they were before the call.
C16_SetCellColor ==
    (PrimReturned("setCellColor") /\ ValidPosition) =>
        /\ SameShape(Result, gridCopy)
        /\ At(Result, Position) = targetColor
        /\ \A p \in Cells(gridCopy) \ {Position} : At(Result, p) = At(gridCopy, p)
        /\ Input = gridCopy

C16_Witness ==
    /\ PrimReturned("setCellColor")
    /\ ValidPosition
    /\ NumRows(gridCopy) > 1
    /\ NumCols(gridCopy) > 1
    /\ At(gridCopy, Position) # targetColor
    /\ \E p \in Cells(gridCopy) \ {Position} : At(gridCopy, p) # targetColor

\* C17: for an invalid position (out of range, or any position on an empty
\* grid), setCellColor returns: what it returns is the original grid itself,
\* with every cell unchanged.
C17_SetCellColorInvalid ==
    (PrimReturned("setCellColor") /\ ~ValidPosition) =>
        /\ sameArray
        /\ returnedGrid = grid
        /\ Result = gridCopy
        /\ Input = gridCopy

C17_Witness ==
    /\ PrimReturned("setCellColor")
    /\ ~ValidPosition
    /\ gridCopy # <<>>
    /\ row \in 0..(NumRows(gridCopy) - 1)
    /\ col = NumCols(gridCopy)
    /\ col > 0

\* C18: cloneGrid returns a grid cell-for-cell equal to its input, whose
\* outer array and rows are storage of their own: a write into a cell of the
\* clone leaves the source unchanged, a write into a cell of the source
\* leaves the clone unchanged.
C18_CloneIndependent ==
    /\ PrimReturned("cloneGrid") =>
          /\ Result = gridCopy
          /\ ~sameArray
          /\ RowsOf(returnedGrid) \cap RowsOf(grid) = {}
          /\ Cardinality(RowsOf(returnedGrid)) = Len(returnedGrid)
    /\ Wrote("cloneGrid", "returned") =>
          /\ Input = gridCopy
          /\ At(Result, <<written[2], written[3]>>) = WrittenColor
    /\ Wrote("cloneGrid", "source") =>
          /\ Result = returnedCopy
          /\ At(Input, <<written[2], written[3]>>) = WrittenColor

C18_Witness ==
    /\ Wrote("cloneGrid", "source")
    /\ NumRows(gridCopy) > 1
    /\ written[2] = NumRows(gridCopy) - 1
    /\ Input # gridCopy

\* C19: getCellColor returns the stored colour when (row, col) is a valid
\* position, and returns undefined for every position out of range, every
\* position on the empty grid included.
C19_GetCellColor ==
    PrimReturned("getCellColor") =>
        /\ ValidPosition => value = At(gridCopy, Position)
        /\ ~ValidPosition => value = Undefined

C19_Witness ==
    /\ PrimReturned("getCellColor")
    /\ ValidPosition
    /\ col > 0
    /\ value # At(gridCopy, <<row, 0>>)

\* C20: isValidPosition is true exactly when 0 <= row < rows and
\* 0 <= col < cols, rows being the number of rows and cols the length of the
\* first row; it is false for every position on the empty grid.
C20_IsValidPosition ==
    PrimReturned("isValidPosition") =>
        /\ value = (/\ 0 <= row /\ row < NumRows(gridCopy)
                    /\ 0 <= col /\ col < NumCols(gridCopy))
        /\ gridCopy = <<>> => value = FALSE

C20_Witness ==
    /\ PrimReturned("isValidPosition")
    /\ value = FALSE
    /\ col = -1
    /\ row \in 0..(NumRows(gridCopy) - 1)
    /\ NumCols(gridCopy) > 0

\* ----------------------------------------------- claims: helper functions
UtilReturned(name) == utility = name /\ pc = "returned"

\* The centre index of an extent n, floor(n / 2): the k with 2k <= n < 2k + 2.
Centre(n) == CHOOSE k \in 0..n : 2 * k <= n /\ n < 2 * k + 2

\* C21: determineFlipDirection answers 'up' for a row above the centre row,
\* 'down' for a row below it, and on the centre row 'left' or 'right' for a
\* column left or right of the centre column: the row decides before the
\* column, and 'center' is the answer exactly at the centre row and column.
C21_FlipDirection ==
    UtilReturned("determineFlipDirection") =>
        LET centreRow == Centre(args.totalRows)
            centreCol == Centre(args.totalCols)
        IN  /\ args.row < centreRow => returnValue = "up"
            /\ args.row > centreRow => returnValue = "down"
            /\ (args.row = centreRow /\ args.col < centreCol) => returnValue = "left"
            /\ (args.row = centreRow /\ args.col > centreCol) => returnValue = "right"
            /\ returnValue = "center" <=>
                   (args.row = centreRow /\ args.col = centreCol)

C21_Witness ==
    /\ UtilReturned("determineFlipDirection")
    /\ returnValue = "down"
    /\ args.col < Centre(args.totalCols)
    /\ args.totalRows = 3

\* C22: createDisplayGrid, and mergeGrids alike, returns a grid of the
\* shape of baseGrid whose cell (r, c) is the snapshot's where the snapshot
\* has one and baseGrid's otherwise; for grids of one shape the result
\* equals the snapshot; neither argument is modified and no row of the
\* result is a row of an argument.
C22_DisplayGrid ==
    (UtilReturned("createDisplayGrid") \/ UtilReturned("mergeGrids")) =>
        LET display == Deref(heap, returnValue)
            base == argsCopy.baseGrid
            snapshot == argsCopy.snapshot
        IN  /\ SameShape(display, base)
            /\ \A p \in Cells(base) :
                   At(display, p) = IF p \in Cells(snapshot) THEN At(snapshot, p)
                                    ELSE At(base, p)
            /\ SameShape(base, snapshot) => display = snapshot
            /\ Deref(heap, args.baseGrid) = base
            /\ Deref(heap, args.snapshot) = snapshot
            /\ Range(returnValue) \cap (Range(args.baseGrid) \cup Range(args.snapshot)) = {}
            /\ Cardinality(Range(returnValue)) = Len(returnValue)

C22_Witness ==
    /\ UtilReturned("mergeGrids")
    /\ Cells(argsCopy.baseGrid) \ Cells(argsCopy.snapshot) # {}
    /\ Cells(argsCopy.snapshot) \ Cells(argsCopy.baseGrid) # {}
    /\ \E p \in Cells(argsCopy.baseGrid) \cap Cells(argsCopy.snapshot) :
          At(argsCopy.baseGrid, p) # At(argsCopy.snapshot, p)

\* C23: getNeighbors returns the 4-connected neighbours of (row, col) lying
\* inside the grid, each once, in the order up, down, left, right; never
\* (row, col) itself and never a diagonal cell.
C23_Neighbors ==
    UtilReturned("getNeighbors") =>
        LET position == <<args.row, args.col>>
            inside == (0..(args.totalRows - 1)) \X (0..(args.totalCols - 1))
            rank(p) == IF p[1] < args.row THEN 1
                       ELSE IF p[1] > args.row THEN 2
                       ELSE IF p[2] < args.col THEN 3 ELSE 4
        IN  /\ Range(returnValue) = {p \in inside : Adjacent(p, position)}
            /\ \A i, j \in 1..Len(returnValue) :
                   i < j => rank(returnValue[i]) < rank(returnValue[j])
            /\ position \notin Range(returnValue)

C23_Witness ==
    /\ UtilReturned("getNeighbors")
    /\ Len(returnValue) = 3
    /\ args.row = args.totalRows - 1
    /\ args.col > 0

\* C24: for a positive cell size, calculateGridDimensions returns as cols
\* (rows) the number of whole cells that fit in the available width
\* (height), and 1 when not even one fits: never less than 1 row and 1 col.
C24_GridDimensions ==
    UtilReturned("calculateGridDimensions") =>
        LET fits(n, available) ==
                IF available < args.cellSize
                THEN n = 1
                ELSE n * args.cellSize <= available
                     /\ available < (n + 1) * args.cellSize
        IN  /\ returnValue.cols >= 1
            /\ returnValue.rows >= 1
            /\ fits(returnValue.cols, args.availableWidth)
            /\ fits(returnValue.rows, args.availableHeight)

C24_Witness ==
    /\ UtilReturned("calculateGridDimensions")
    /\ args.availableWidth < args.cellSize
    /\ args.availableHeight > 2 * args.cellSize
    /\ returnValue.rows > returnValue.cols

\* ------------------------------------------------ claims: territory count
CountCells == args.rows * args.cols
\* max(2, floor(sqrt(n) / 2)): the larger of 2 and the k with 2k <= sqrt(n) < 2k + 2.
MinCount ==
    LET k == CHOOSE j \in 0..CountCells :
                 4 * j * j <= CountCells /\ CountCells < 4 * (j + 1) * (j + 1)
    IN  IF k > 2 THEN k ELSE 2
\* 100 * (min + (n - min) * (100 - organicness) / 100)
CountTimes100 == 100 * MinCount + (CountCells - MinCount) * (100 - args.organicness)
\* c is the floor of min + (n - min) * (100 - organicness) / 100.
IsExactCount(c) == 100 * c <= CountTimes100 /\ CountTimes100 < 100 * (c + 1)

\* C30 as claimed: for organicness in 1..100 and positive rows and cols the
\* territory count is floor(min + (rows * cols - min) * (100 - organicness) / 100),
\* it is min at organicness 100 and always lies between min and rows * cols.
C30_TerritoryCount ==
    UtilReturned("calculateTerritoryCount") =>
        /\ IsExactCount(returnValue)
        /\ args.organicness = 100 => returnValue = MinCount
        /\ MinCount <= returnValue
        /\ returnValue <= CountCells

\* C30 as amended: the count is that floor, or one less when
\* (rows * cols - min) * (100 - organicness) is a multiple of 100 and the
\* double-precision product falls just under the integer; it is min at
\* organicness 100; it lies between min and rows * cols when rows * cols >= 2,
\* and on a 1 x 1 grid it is 2 at organicness 100 and 1 below.
C30_TerritoryCountInDoubles ==
    UtilReturned("calculateTerritoryCount") =>
        /\ IsExactCount(returnValue)
              \/ /\ IsExactCount(returnValue + 1)
                 /\ CountTimes100 % 100 = 0
        /\ args.organicness = 100 => returnValue = MinCount
        /\ CountCells >= 2 => (MinCount <= returnValue /\ returnValue <= CountCells)
        /\ CountCells = 1 => returnValue = (IF args.organicness = 100 THEN 2 ELSE 1)

\* A count one below the floor: 53 cells at organicness 42 give 31, not 32.
C30_Witness ==
    /\ UtilReturned("calculateTerritoryCount")
    /\ IsExactCount(returnValue + 1)
    /\ args.organicness \in 1..99
    /\ returnValue > MinCount

\* ------------------------------------------------ claims on the final fill
\* The coloured cells of v inside the 5 x 5 window centred on p.
Window(v, p) ==
    {q \in Colored(v) : /\ Abs(q[1] - p[1]) <= 2
                        /\ Abs(q[2] - p[2]) <= 2}
Manhattan(p, q) == Abs(p[1] - q[1]) + Abs(p[2] - q[2])
Nearest(v, p) ==
    {q \in Window(v, p) : \A o \in Window(v, p) : Manhattan(p, q) <= Manhattan(p, o)}
Palette == Range(CYBERPUNK_PALETTE)

\* C31 (final fill pass): a cell still unfilled after growth receives the
\* colour of a coloured cell at the least Manhattan distance among the
\* coloured cells of the 5 x 5 window centred on it, or a palette colour if
\* the window holds no coloured cell; a cell coloured during growth keeps
\* its colour.
C31_FinalFill ==
    UtilReturned("fillRemainingCells") =>
        /\ SameShape(returnValue, args.grid)
        /\ \A p \in Cells(args.grid) :
              IF At(args.grid, p) # Null
              THEN At(returnValue, p) = At(args.grid, p)
              ELSE IF Window(args.grid, p) = {}
              THEN At(returnValue, p) \in Palette
              ELSE \E q \in Nearest(args.grid, p) :
                      At(returnValue, p) = At(args.grid, q)

\* A fill in which one unfilled cell has coloured cells of two colours at
\* two distances in its window and another has coloured cells only beyond
\* its window.
C31_Witness ==
    /\ UtilReturned("fillRemainingCells")
    /\ \E p \in Cells(args.grid) :
          /\ At(args.grid, p) = Null
          /\ \E q \in Nearest(args.grid, p) :
                \E o \in Window(args.grid, p) \ Nearest(args.grid, p) :
                    /\ At(args.grid, o) # At(args.grid, q)
                    /\ At(returnValue, p) = At(args.grid, q)
    /\ \E p \in Cells(args.grid) :
          /\ At(args.grid, p) = Null
          /\ Window(args.grid, p) = {}
          /\ Colored(args.grid) # {}
          /\ At(returnValue, p) \in Palette

\* ------------------------------------------ claims on the growth probability
\* C32 (growth probability): for every noise value and every organicness in
\* 0..100 the value returned by calculateGrowthProbability, here in
\* thousandths, lies between 0 and 1 inclusive.
C32_ProbabilityInRange ==
    (UtilReturned("calculateGrowthProbability") /\ args.organicness \in 0..100)
        => (returnValue >= 0 /\ returnValue <= 1000)

\* ------------------------------------------------- claims on the palette
AllCells(v) == {<<r, c>> : r \in 1..Len(v), c \in 1..NumCols(v)}

\* C38 (palette): for positive rows and cols, every organicness in 0..100
\* and every outcome of the draws, each cell of the grid returned by
\* generateGridWithZones or generateGrid is one of the 9 palette colours;
\* at organicness = 0 no territory is seeded or grown.
C38_PaletteColours ==
    (GenReturned /\ PositiveDimensions /\ organicness \in 0..100) =>
        /\ Cardinality(Palette) = 9
        /\ Populated
        /\ \A p \in AllCells(generated) : generated[p[1]][p[2]] \in Palette
        /\ (Zones /\ organicness = 0) =>
              /\ territories = <<>>
              /\ iteration = 0
              /\ \A p \in AllCells(zoneGrid) : zoneGrid[p[1]][p[2]] = Null

\* A grid returned at organicness = 0 whose adjacent cells drew different
\* palette colours.
C38_Witness ==
    /\ GenReturned /\ Zones /\ PositiveDimensions
    /\ organicness = 0
    /\ \E p \in AllCells(generated), q \in AllCells(generated) :
          /\ Adjacent(p, q)
          /\ generated[p[1]][p[2]] # generated[q[1]][q[2]]
          /\ {generated[p[1]][p[2]], generated[q[1]][q[2]]} \subseteq Palette

\* ------------------------------------------------------- the application
\* React renders App from its state and commits the result; the handlers and
\* effects of a commit read the state of that commit.  A task (an event
\* handler, a timeout callback, an observer callback) queues state updates;
\* before rendering them React runs the passive effects still pending from
\* the last commit, then applies the queue in order and commits.  Passive
\* effects that no render has forced yet run in a task of their own: all the
\* cleanups, then the effects in the order of their declaration.
PRESET_COLORS == <<"#FF006E", "#3A86FF", "#06FFA5">>

InitialCellSize == 40
InitialOrganicness == 100
InitialRows == 5
InitialCols == 10

\* The longest snapshot list floodFill returns to the application, and the
\* number of user and observer events followed.
MaxSnapshots == 3
MaxEvents == 4

\* The values the controls and the measure of the container are moved to.
GridSizes == {<<InitialRows, InitialCols>>, <<1, 1>>}
CellSizes == {InitialCellSize, 80}
SliderOrganicness == {InitialOrganicness, 0}
\* The cells clicked: the first one and the centre one.
CellClicks(st) == {<<0, 0>>, <<st.rows \div 2, st.cols \div 2>>}

\* Grids are told apart as the array objects they are: the k-th grid made
\* by generateGridWithZones, the i-th snapshot of the f-th flood fill, and
\* the grid createDisplayGrid builds from a base grid and a snapshot.
generatedGrid(k) == [kind |-> "generated", id |-> k]
snapshotGrid(f, i) == [kind |-> "snapshot", fill |-> f, index |-> i]
displayGrid(baseGrid, snapshot) ==
    [kind |-> "display", base |-> baseGrid, snapshot |-> snapshot]
\* result.snapshots of the f-th flood fill, n snapshots long.
fillSnapshots(f, n) == [i \in 1..n |-> snapshotGrid(f, i - 1)]

\* A queued state update: setX(value), or setX(prev => prev + 1).
SetState(field, v) == [field |-> field, updater |-> FALSE, value |-> v]
Increment(field) == [field |-> field, updater |-> TRUE, value |-> 1]

RECURSIVE applyUpdates(_, _)
applyUpdates(st, queue) ==
    IF queue = <<>>
    THEN st
    ELSE LET u == Head(queue)
         IN  applyUpdates([st EXCEPT ![u.field] =
                               IF u.updater THEN @ + u.value ELSE u.value],
                          Tail(queue))

Call(name, arg) == [call |-> name, arg |-> arg]
NoArg == [kind |-> "none"]
Timeout(id) == [kind |-> "timeout", id |-> id]

\* What a task has done so far.
Task(name) ==
    [queue |-> <<>>, timers |-> timers, ref |-> animationTimeoutRef,
     cleanup |-> stepCleanup, calls |-> <<Call(name, NoArg)>>,
     completions |-> completions, fills |-> fills, generations |-> generations]

\* if (animationTimeoutRef.current) clearTimeout(animationTimeoutRef.current)
clearTimer(t) ==
    IF t.ref # NoTimer
    THEN [t EXCEPT !.timers = @ \ {t.ref},
                   !.calls = Append(@, Call("clearTimeout", Timeout(t.ref)))]
    ELSE t

\* Faulty variant: the timeout is left pending.
stopAnimationKeepsTimer(t) ==
    [t EXCEPT !.queue = @ \o <<SetState("isAnimating", FALSE),
                               SetState("animationStep", 0),
                               SetState("snapshots", <<>>),
                               SetState("flipDirection", Null)>>,
              !.calls = Append(@, Call("stopAnimation", NoArg))]

stopAnimation(t) ==
    LET called == [t EXCEPT !.calls = Append(@, Call("stopAnimation", NoArg))]
    IN  [clearTimer(called) EXCEPT
            !.queue = @ \o <<SetState("isAnimating", FALSE),
                             SetState("animationStep", 0),
                             SetState("snapshots", <<>>),
                             SetState("flipDirection", Null)>>]

startAnimation(t, newSnapshots, direction) ==
    [t EXCEPT !.queue = @ \o <<SetState("flipDirection", direction),
                               SetState("snapshots", newSnapshots),
                               SetState("animationStep", 0),
                               SetState("isAnimating", TRUE)>>,
              !.calls = Append(@, Call("startAnimation", NoArg)),
              !.completions = <<>>]

\* App.handleAnimationComplete, the hook's onAnimationComplete.
handleAnimationComplete(t, finalGrid) ==
    [t EXCEPT !.queue = Append(@, SetState("baseGrid", finalGrid)),
              !.calls = Append(@, Call("onAnimationComplete", finalGrid)),
              !.completions = Append(@, finalGrid)]

\* const newGrid = generateGridWithZones(rows, cols, organicness);
\* setBaseGrid(newGrid)
regenerate(t) ==
    [t EXCEPT !.queue = Append(@, SetState("baseGrid", generatedGrid(t.generations))),
              !.calls = Append(@, Call("generateGridWithZones",
                                       generatedGrid(t.generations))),
              !.generations = @ + 1]

\* measureAndRecalculate: setRows(newRows); setCols(newCols)
measureAndRecalculate(t, measured) ==
    [t EXCEPT !.queue = @ \o <<SetState("rows", measured[1]),
                               SetState("cols", measured[2])>>]

\* useEffect(..., [baseGrid]) of the hook.
baseGridEffect(st, due, t) ==
    IF "baseGrid" \in due /\ ~st.isAnimating
    THEN [t EXCEPT !.queue = Append(@, SetState("currentGrid", st.baseGrid))]
    ELSE t

\* The cleanup the step effect returned when it set its timeout.
stepEffectCleanup(t) == IF t.cleanup THEN clearTimer(t) ELSE t

\* Faulty variant: the last snapshot is reached only past the end of the
\* list (animationStep >= snapshots.length).
stepEffectPastEnd(st, t) ==
    IF ~st.isAnimating \/ Len(st.snapshots) = 0
    THEN [t EXCEPT !.cleanup = FALSE]
    ELSE IF st.animationStep >= Len(st.snapshots)
    THEN LET finalGrid == st.snapshots[Len(st.snapshots)]
         IN  stopAnimation([handleAnimationComplete(t, finalGrid)
                               EXCEPT !.cleanup = FALSE])
    ELSE LET id == CHOOSE i \in 1..(Cardinality(t.timers) + 1) : i \notin t.timers
         IN  [t EXCEPT !.ref = id,
                       !.timers = @ \cup {id},
                       !.cleanup = TRUE,
                       !.calls = Append(@, Call("setTimeout", Timeout(id)))]

\* Faulty variant: the animation is stopped without onAnimationComplete.
stepEffectNoCallback(st, t) ==
    IF ~st.isAnimating \/ Len(st.snapshots) = 0
    THEN [t EXCEPT !.cleanup = FALSE]
    ELSE IF st.animationStep >= Len(st.snapshots) - 1
    THEN stopAnimation([t EXCEPT !.cleanup = FALSE])
    ELSE LET id == CHOOSE i \in 1..(Cardinality(t.timers) + 1) : i \notin t.timers
         IN  [t EXCEPT !.ref = id,
                       !.timers = @ \cup {id},
                       !.cleanup = TRUE,
                       !.calls = Append(@, Call("setTimeout", Timeout(id)))]

\* The step effect.  Its dependency onAnimationComplete is a function App
\* creates anew at every render, so the effect runs after every commit.
stepEffect(st, t) ==
    IF ~st.isAnimating \/ Len(st.snapshots) = 0
    THEN [t EXCEPT !.cleanup = FALSE]
    ELSE IF st.animationStep >= Len(st.snapshots) - 1
    THEN LET finalGrid == st.snapshots[Len(st.snapshots)]
         IN  stopAnimation([handleAnimationComplete(t, finalGrid)
                               EXCEPT !.cleanup = FALSE])
    ELSE LET id == CHOOSE i \in 1..(Cardinality(t.timers) + 1) : i \notin t.timers
         IN  [t EXCEPT !.ref = id,
                       !.timers = @ \cup {id},
                       !.cleanup = TRUE,
                       !.calls = Append(@, Call("setTimeout", Timeout(id)))]

\* The display effect: setCurrentGrid(prev => createDisplayGrid(baseGrid,
\* snapshots[animationStep])).
displayEffect(st, due, t) ==
    IF /\ "display" \in due
       /\ st.isAnimating
       /\ Len(st.snapshots) > 0
       /\ st.animationStep < Len(st.snapshots)
    THEN [t EXCEPT !.queue = Append(@, SetState("currentGrid",
                       displayGrid(st.baseGrid, st.snapshots[st.animationStep + 1])))]
    ELSE t

\* Faulty variant: the grid is regenerated but the animation is not stopped.
regenerateEffectNoStop(st, due, t) ==
    IF "regenerate" \in due /\ st.rows > 0 /\ st.cols > 0
    THEN regenerate(t)
    ELSE t

\* App's useEffect(..., [rows, cols, organicness]).
regenerateEffect(st, due, t) ==
    IF "regenerate" \in due /\ st.rows > 0 /\ st.cols > 0
    THEN stopAnimation(regenerate(t))
    ELSE t

\* useGridDimensions' useEffect(..., [cellSize, margins]).
measureEffect(due, t, measured) ==
    IF "measure" \in due THEN measureAndRecalculate(t, measured) ELSE t

\* The passive effects `due` of the commit of st.
flushPassiveEffects(st, due, t, measured) ==
    regenerateEffect(st, due,
        displayEffect(st, due,
            stepEffect(st,
                baseGridEffect(st, due,
                    measureEffect(due, stepEffectCleanup(t), measured)))))

AllEffects == {"measure", "baseGrid", "step", "display", "regenerate"}

\* The effects whose dependencies differ between two commits.  Lists and
\* grids are compared as values, which tells apart all the arrays a running
\* animation can hold.
changedEffects(old, new) ==
    {"step"}
    \cup (IF old.cellSize # new.cellSize THEN {"measure"} ELSE {})
    \cup (IF old.baseGrid # new.baseGrid THEN {"baseGrid"} ELSE {})
    \cup (IF <<old.isAnimating, old.animationStep, old.snapshots, old.baseGrid>>
              # <<new.isAnimating, new.animationStep, new.snapshots, new.baseGrid>>
          THEN {"display"} ELSE {})
    \cup (IF <<old.rows, old.cols, old.organicness>>
              # <<new.rows, new.cols, new.organicness>>
          THEN {"regenerate"} ELSE {})

\* The end of a task that queued t.queue: nothing if the state is left as
\* it is; else the pending effects, the render and the commit.
settle(st, pending, t, measured) ==
    IF applyUpdates(st, t.queue) = st
    THEN [state |-> st, effects |-> pending, task |-> t]
    ELSE LET flushed == IF pending = {} THEN t
                        ELSE flushPassiveEffects(st, pending, t, measured)
             new == applyUpdates(st, flushed.queue)
         IN  [state |-> new,
              effects |-> IF new = st THEN {} ELSE changedEffects(st, new),
              task |-> flushed]

\* The passive effects run in a task of their own, with the render of the
\* updates they queue.
settleEffects(st, pending, t, measured) ==
    LET flushed == flushPassiveEffects(st, pending, t, measured)
        new == applyUpdates(st, flushed.queue)
    IN  [state |-> new,
         effects |-> IF new = st THEN {} ELSE changedEffects(st, new),
         task |-> flushed]

\* What the container measures when the measure effect is due.
Measures ==
    IF "measure" \in effects THEN GridSizes ELSE {<<InitialRows, InitialCols>>}

\* The first commit: App rendered from its initial state, every effect due.
AppInit ==
    /\ FillIdle
    /\ GenIdle
    /\ PrimIdle
    /\ UtilIdle
    /\ state = [cellSize |-> InitialCellSize,
                organicness |-> InitialOrganicness,
                sidebarOpen |-> TRUE,
                selectedColor |-> PRESET_COLORS[1],
                isColorPickerMode |-> FALSE,
                rows |-> InitialRows,
                cols |-> InitialCols,
                baseGrid |-> generatedGrid(0),
                isAnimating |-> FALSE,
                animationStep |-> 0,
                snapshots |-> <<>>,
                flipDirection |-> Null,
                currentGrid |-> generatedGrid(0)]
    /\ effects = AllEffects
    /\ stepCleanup = FALSE
    /\ animationTimeoutRef = NoTimer
    /\ timers = {}
    /\ calls = <<>>
    /\ completions = <<>>
    /\ fills = 0
    /\ generations = 1
    /\ events = 0

\* Faulty variant: the test `if (isAnimating) return` is missing.
cellClickedWhileAnimating(st, t, cell, n, cellColor) ==
    IF st.isColorPickerMode
    THEN [t EXCEPT !.queue = <<SetState("selectedColor", cellColor),
                               SetState("isColorPickerMode", FALSE)>>]
    ELSE startAnimation(
             [t EXCEPT !.fills = @ + 1,
                       !.calls = Append(@, Call("floodFill", NoArg))],
             fillSnapshots(t.fills, n),
             determineFlipDirection(cell[1], cell[2], st.rows, st.cols))

\* The body of handleCellClick(row, col): n is the length of the snapshot
\* list floodFill returns and cellColor the colour currentGrid[row][col].
cellClicked(st, t, cell, n, cellColor) ==
    IF st.isAnimating
    THEN t
    ELSE IF st.isColorPickerMode
    THEN [t EXCEPT !.queue = <<SetState("selectedColor", cellColor),
                               SetState("isColorPickerMode", FALSE)>>]
    ELSE startAnimation(
             [t EXCEPT !.fills = @ + 1,
                       !.calls = Append(@, Call("floodFill", NoArg))],
             fillSnapshots(t.fills, n),
             determineFlipDirection(cell[1], cell[2], st.rows, st.cols))

\* A click on a cell.  floodFill returns a list of 1 to MaxSnapshots
\* snapshots; the colour picked is the colour of the cell.
handleCellClick ==
    /\ events < MaxEvents
    /\ \E cell \in CellClicks(state), n \in 1..MaxSnapshots,
          cellColor \in randomCyberpunkColor, measured \in Measures :
          LET handled == cellClicked(state, Task("handleCellClick"), cell, n,
                                     cellColor)
          IN  \E r \in {settle(state, effects, handled, measured)} :
              /\ state' = r.state
              /\ effects' = r.effects
              /\ stepCleanup' = r.task.cleanup
              /\ animationTimeoutRef' = r.task.ref
              /\ timers' = r.task.timers
              /\ calls' = r.task.calls
              /\ completions' = r.task.completions
              /\ fills' = r.task.fills
              /\ generations' = r.task.generations
    /\ events' = events + 1
    /\ UNCHANGED <<fillVars, genVars, primVars, utilVars>>

\* A colour of the picker or a preset button, disabled while animating.
handleColorSelect ==
    /\ events < MaxEvents
    /\ ~state.isAnimating
    /\ \E color \in Range(PRESET_COLORS), measured \in Measures :
          LET t == Task("handleColorSelect")
              handled == [t EXCEPT !.queue = <<SetState("selectedColor", color)>>]
          IN  \E r \in {settle(state, effects, handled, measured)} :
              /\ state' = r.state
              /\ effects' = r.effects
              /\ stepCleanup' = r.task.cleanup
              /\ animationTimeoutRef' = r.task.ref
              /\ timers' = r.task.timers
              /\ calls' = r.task.calls
              /\ completions' = r.task.completions
              /\ fills' = r.task.fills
              /\ generations' = r.task.generations
    /\ events' = events + 1
    /\ UNCHANGED <<fillVars, genVars, primVars, utilVars>>

\* The Pick button, disabled while animating.
togglePickerMode ==
    /\ events < MaxEvents
    /\ ~state.isAnimating
    /\ \E measured \in Measures :
          LET t == Task("setIsColorPickerMode")
              handled == [t EXCEPT !.queue =
                             <<SetState("isColorPickerMode", ~state.isColorPickerMode)>>]
          IN  \E r \in {settle(state, effects, handled, measured)} :
              /\ state' = r.state
              /\ effects' = r.effects
              /\ stepCleanup' = r.task.cleanup
              /\ animationTimeoutRef' = r.task.ref
              /\ timers' = r.task.timers
              /\ calls' = r.task.calls
              /\ completions' = r.task.completions
              /\ fills' = r.task.fills
              /\ generations' = r.task.generations
    /\ events' = events + 1
    /\ UNCHANGED <<fillVars, genVars, primVars, utilVars>>

\* The burger button, never disabled.
toggleSidebar ==
    /\ events < MaxEvents
    /\ \E measured \in Measures :
          LET t == Task("setSidebarOpen")
              handled == [t EXCEPT !.queue =
                             <<SetState("sidebarOpen", ~state.sidebarOpen)>>]
          IN  \E r \in {settle(state, effects, handled, measured)} :
              /\ state' = r.state
              /\ effects' = r.effects
              /\ stepCleanup' = r.task.cleanup
              /\ animationTimeoutRef' = r.task.ref
              /\ timers' = r.task.timers
              /\ calls' = r.task.calls
              /\ completions' = r.task.completions
              /\ fills' = r.task.fills
              /\ generations' = r.task.generations
    /\ events' = events + 1
    /\ UNCHANGED <<fillVars, genVars, primVars, utilVars>>

\* The Reset button, disabled while animating.
handleResetGrid ==
    /\ events < MaxEvents
    /\ ~state.isAnimating
    /\ \E measured \in Measures :
          LET handled == regenerate(stopAnimation(Task("handleResetGrid")))
          IN  \E r \in {settle(state, effects, handled, measured)} :
              /\ state' = r.state
              /\ effects' = r.effects
              /\ stepCleanup' = r.task.cleanup
              /\ animationTimeoutRef' = r.task.ref
              /\ timers' = r.task.timers
              /\ calls' = r.task.calls
              /\ completions' = r.task.completions
              /\ fills' = r.task.fills
              /\ generations' = r.task.generations
    /\ events' = events + 1
    /\ UNCHANGED <<fillVars, genVars, primVars, utilVars>>

\* The organicness slider, disabled while animating.
handleOrganicnessChange ==
    /\ events < MaxEvents
    /\ ~state.isAnimating
    /\ \E v \in SliderOrganicness, measured \in Measures :
          LET t == Task("handleOrganicnessChange")
              handled == [t EXCEPT !.queue = <<SetState("organicness", v)>>]
          IN  \E r \in {settle(state, effects, handled, measured)} :
              /\ state' = r.state
              /\ effects' = r.effects
              /\ stepCleanup' = r.task.cleanup
              /\ animationTimeoutRef' = r.task.ref
              /\ timers' = r.task.timers
              /\ calls' = r.task.calls
              /\ completions' = r.task.completions
              /\ fills' = r.task.fills
              /\ generations' = r.task.generations
    /\ events' = events + 1
    /\ UNCHANGED <<fillVars, genVars, primVars, utilVars>>

\* The cell size slider, disabled while animating.
handleCellSizeChange ==
    /\ events < MaxEvents
    /\ ~state.isAnimating
    /\ \E v \in CellSizes, measured \in Measures :
          LET t == Task("handleCellSizeChange")
              handled == stopAnimation(
                             [t EXCEPT !.queue = <<SetState("cellSize", v)>>])
          IN  \E r \in {settle(state, effects, handled, measured)} :
              /\ state' = r.state
              /\ effects' = r.effects
              /\ stepCleanup' = r.task.cleanup
              /\ animationTimeoutRef' = r.task.ref
              /\ timers' = r.task.timers
              /\ calls' = r.task.calls
              /\ completions' = r.task.completions
              /\ fills' = r.task.fills
              /\ generations' = r.task.generations
    /\ events' = events + 1
    /\ UNCHANGED <<fillVars, genVars, primVars, utilVars>>

\* The ResizeObserver's callback: the container was resized.
resizeObserved ==
    /\ events < MaxEvents
    /\ \E resized \in GridSizes, measured \in Measures :
          LET handled == measureAndRecalculate(Task("measureAndRecalculate"),
                                               resized)
          IN  \E r \in {settle(state, effects, handled, measured)} :
              /\ state' = r.state
              /\ effects' = r.effects
              /\ stepCleanup' = r.task.cleanup
              /\ animationTimeoutRef' = r.task.ref
              /\ timers' = r.task.timers
              /\ calls' = r.task.calls
              /\ completions' = r.task.completions
              /\ fills' = r.task.fills
              /\ generations' = r.task.generations
    /\ events' = events + 1
    /\ UNCHANGED <<fillVars, genVars, primVars, utilVars>>

\* A timeout fires: setAnimationStep(prev => prev + 1).
timeoutFires ==
    /\ \E id \in timers, measured \in Measures :
          LET t == Task("timeout")
              handled == [t EXCEPT !.timers = @ \ {id},
                                   !.queue = <<Increment("animationStep")>>]
          IN  \E r \in {settle(state, effects, handled, measured)} :
              /\ state' = r.state
              /\ effects' = r.effects
              /\ stepCleanup' = r.task.cleanup
              /\ animationTimeoutRef' = r.task.ref
              /\ timers' = r.task.timers
              /\ calls' = r.task.calls
              /\ completions' = r.task.completions
              /\ fills' = r.task.fills
              /\ generations' = r.task.generations
    /\ UNCHANGED events
    /\ UNCHANGED <<fillVars, genVars, primVars, utilVars>>

\* The pending passive effects run before any other task.
passiveEffects ==
    /\ effects # {}
    /\ \E measured \in Measures :
          \E r \in {settleEffects(state, effects, Task("flushPassiveEffects"),
                                  measured)} :
              /\ state' = r.state
              /\ effects' = r.effects
              /\ stepCleanup' = r.task.cleanup
              /\ animationTimeoutRef' = r.task.ref
              /\ timers' = r.task.timers
              /\ calls' = r.task.calls
              /\ completions' = r.task.completions
              /\ fills' = r.task.fills
              /\ generations' = r.task.generations
    /\ UNCHANGED events
    /\ UNCHANGED <<fillVars, genVars, primVars, utilVars>>

AppNext ==
    \/ handleCellClick
    \/ handleColorSelect
    \/ togglePickerMode
    \/ toggleSidebar
    \/ handleResetGrid
    \/ handleOrganicnessChange
    \/ handleCellSizeChange
    \/ resizeObserved
    \/ timeoutFires
    \/ passiveEffects

AppSpec == AppInit /\ [][AppNext]_vars

\* ------------------------------------------------ claims on the animation
\* The calls of a task's trace.
CalledIn(trace, name) == \E i \in 1..Len(trace) : trace[i].call = name
TimesCalledIn(trace, name) ==
    Cardinality({i \in 1..Len(trace) : trace[i].call = name})
TaskIn(trace, name) == trace # <<>> /\ trace[1].call = name
ArgsIn(trace, name) ==
    {trace[i].arg : i \in {j \in 1..Len(trace) : trace[j].call = name}}
\* The hook's idle state.
IdleHook(st) ==
    /\ st.isAnimating = FALSE
    /\ st.animationStep = 0
    /\ st.snapshots = <<>>
    /\ st.flipDirection = Null
LastSnapshot(st) == st.snapshots[Len(st.snapshots)]
AtLastStep(st) == st.animationStep >= Len(st.snapshots) - 1
\* The index of the snapshot of the running animation that currentGrid
\* shows, -1 before the first one is shown.
DisplayedIndex(st) ==
    IF /\ st.currentGrid.kind = "display"
       /\ st.currentGrid.snapshot \in Range(st.snapshots)
    THEN st.currentGrid.snapshot.index
    ELSE -1

\* C33 (the animation finishes): startAnimation is given a non-empty list
\* and leaves work pending; while the animation runs and no regeneration
\* intervenes there is always a pending effect or a pending timeout, each
\* timeout moves the step one closer to the last, and at the last step the
\* pending effect ends the animation whatever task runs it: then
\* onAnimationComplete has been called exactly once, with the last snapshot,
\* the base grid is that snapshot and the hook is idle.  A one-element list
\* is at its last step from the start and never has a timeout.
C33_Step ==
    /\ (/\ CalledIn(calls', "startAnimation")
        /\ ~CalledIn(calls', "generateGridWithZones")) =>
          /\ state'.isAnimating
          /\ Len(state'.snapshots) >= 1
          /\ completions' = <<>>
    /\ Len(completions') <= 1
    /\ state'.isAnimating =>
          /\ completions' = <<>>
          /\ Len(state'.snapshots) >= 1
          /\ IF AtLastStep(state')
             THEN effects' # {}
             ELSE effects' # {} \/ animationTimeoutRef' \in timers'
          /\ Len(state'.snapshots) = 1 => timers' = {}
    /\ (state.isAnimating /\ ~CalledIn(calls', "generateGridWithZones")) =>
          /\ (TaskIn(calls', "timeout") /\ ~AtLastStep(state)) =>
                /\ state'.isAnimating
                /\ state'.animationStep = state.animationStep + 1
          /\ (AtLastStep(state) /\ (state' # state \/ effects' # effects)) =>
                ~state'.isAnimating
          /\ ~state'.isAnimating =>
                /\ AtLastStep(state)
                /\ TimesCalledIn(calls', "onAnimationComplete") = 1
                /\ completions' = <<LastSnapshot(state)>>
                /\ state'.baseGrid = LastSnapshot(state)
                /\ IdleHook(state')

\* C33: an animation that is started and not interrupted makes progress at
\* every step and ends with one onAnimationComplete(last snapshot), the base
\* grid that snapshot and the hook idle.
C33_AnimationFinishes == [][C33_Step]_vars

\* The completion of an animation over MaxSnapshots snapshots.
C33_Witness ==
    /\ CalledIn(calls, "onAnimationComplete")
    /\ completions = <<snapshotGrid(fills - 1, MaxSnapshots - 1)>>
    /\ state.baseGrid = snapshotGrid(fills - 1, MaxSnapshots - 1)
    /\ IdleHook(state)

\* C34 (regeneration during an animation): a task that regenerates the
\* grid leaves the hook idle, no timeout pending and the base grid equal
\* to the grid generated last, whatever timeouts fired before or in it; no
\* timeout is pending while the hook is not animating, so none advances the
\* step after the stop; and the base grid becomes a snapshot only by the
\* completion of an animation at its last step, in a task that does not
\* regenerate.
C34_Step ==
    /\ CalledIn(calls', "generateGridWithZones") =>
          /\ IdleHook(state')
          /\ timers' = {}
          /\ state'.baseGrid = generatedGrid(generations' - 1)
          /\ state'.baseGrid \in ArgsIn(calls', "generateGridWithZones")
    /\ ~state'.isAnimating => timers' = {}
    /\ (~state.isAnimating /\ ~state'.isAnimating) =>
          state'.animationStep = state.animationStep
    /\ (state'.baseGrid # state.baseGrid /\ state'.baseGrid.kind = "snapshot") =>
          /\ state.isAnimating
          /\ AtLastStep(state)
          /\ state'.baseGrid = LastSnapshot(state)
          /\ ~CalledIn(calls', "generateGridWithZones")

\* C34: every task that regenerates the grid leaves the animation stopped,
\* no timeout pending and the base grid the newly generated grid.
C34_Regeneration == [][C34_Step]_vars

\* A timeout of a running animation fired into the task that ran the
\* regeneration effect: the animation was interrupted before completing.
C34_Witness ==
    /\ TaskIn(calls, "timeout")
    /\ CalledIn(calls, "generateGridWithZones")
    /\ CalledIn(calls, "clearTimeout")
    /\ fills = 1
    /\ completions = <<>>
    /\ IdleHook(state)
    /\ state.baseGrid = generatedGrid(generations - 1)

\* C35 (clicks while animating): a cell click while isAnimating is true
\* calls neither floodFill nor startAnimation and changes nothing of the
\* rendered state, the pending effects or the timeouts; startAnimation is
\* only called while no animation runs, and the snapshots of a running
\* animation are those of one flood fill, the last.
C35_Step ==
    /\ (TaskIn(calls', "handleCellClick") /\ state.isAnimating) =>
          /\ calls' = <<Call("handleCellClick", NoArg)>>
          /\ UNCHANGED <<state, effects, stepCleanup, animationTimeoutRef,
                         timers, completions, fills, generations>>
    /\ CalledIn(calls', "startAnimation") =>
          /\ ~state.isAnimating
          /\ TimesCalledIn(calls', "startAnimation") = 1
    /\ state'.isAnimating =>
          \A i \in 1..Len(state'.snapshots) :
              state'.snapshots[i] = snapshotGrid(fills' - 1, i - 1)

\* C35: every cell click while isAnimating is true is ignored, and at most
\* one fill animation runs at a time.
C35_ClicksIgnored == [][C35_Step]_vars

\* A click ignored after the animation has advanced.
C35_Witness ==
    /\ calls = <<Call("handleCellClick", NoArg)>>
    /\ state.isAnimating
    /\ state.animationStep > 0
    /\ timers # {}

\* C36 (the step): the step is 0 when startAnimation was called, stays
\* within 0..n-1 while isAnimating is true, and during an animation changes
\* only by +1, in a task that a timeout began; the snapshot shown is the
\* one of the step or the one before it, and from one commit to the next
\* it is the same or the next one, the last snapshot being shown when the
\* animation completes.
C36_Step ==
    /\ CalledIn(calls', "startAnimation") =>
          /\ state'.animationStep = 0
          /\ DisplayedIndex(state') = -1
    /\ state'.isAnimating =>
          /\ state'.animationStep \in 0..(Len(state'.snapshots) - 1)
          /\ DisplayedIndex(state') \in {state'.animationStep - 1,
                                         state'.animationStep}
    /\ (state.isAnimating /\ state'.isAnimating) =>
          /\ state'.snapshots = state.snapshots
          /\ \/ state'.animationStep = state.animationStep
             \/ /\ state'.animationStep = state.animationStep + 1
                /\ TaskIn(calls', "timeout")
          /\ DisplayedIndex(state') \in {DisplayedIndex(state),
                                         DisplayedIndex(state) + 1}
    /\ (state.isAnimating /\ CalledIn(calls', "onAnimationComplete")) =>
          state'.currentGrid = displayGrid(state.baseGrid, LastSnapshot(state))

\* C36: animationStep starts at 0, grows by 1 per timeout and stays within
\* 0..n-1 while isAnimating is true, the snapshots being shown in order.
C36_StepInOrder == [][C36_Step]_vars

\* The timeout that brings an animation of MaxSnapshots snapshots to its
\* last step, the snapshot before it still shown.
C36_Witness ==
    /\ TaskIn(calls, "timeout")
    /\ state.isAnimating
    /\ Len(state.snapshots) = MaxSnapshots
    /\ state.animationStep = MaxSnapshots - 1
    /\ DisplayedIndex(state) = MaxSnapshots - 2

\* C37 (stopAnimation): a task that called stopAnimation leaves the hook
\* idle and no timeout pending; stopAnimation calls clearTimeout and nothing
\* else, onAnimationComplete never comes after it in a task, and the base
\* grid changes only if the task also called onAnimationComplete or
\* generateGridWithZones.
C37_Step ==
    CalledIn(calls', "stopAnimation") =>
        /\ IdleHook(state')
        /\ Len(state'.snapshots) = 0
        /\ timers' = {}
        /\ \A i \in 1..Len(calls') : \A j \in 1..Len(calls') :
              (calls'[i].call = "stopAnimation" /\ i < j) =>
                  calls'[j].call # "onAnimationComplete"
        /\ (/\ ~CalledIn(calls', "onAnimationComplete")
            /\ ~CalledIn(calls', "generateGridWithZones")) =>
              state'.baseGrid = state.baseGrid

\* C37: every task that called stopAnimation leaves the hook idle and no
\* timeout pending, without onAnimationComplete or a change of the base grid
\* by stopAnimation itself.
C37_StopAnimation == [][C37_Step]_vars

\* stopAnimation cancelling the timeout of a running animation.
C37_Witness ==
    /\ \E i \in 1..(Len(calls) - 1) :
          /\ calls[i].call = "stopAnimation"
          /\ calls[i + 1].call = "clearTimeout"
          /\ CalledIn(SubSeq(calls, 1, i), "setTimeout")
    /\ ~CalledIn(calls, "onAnimationComplete")
    /\ IdleHook(state)
    /\ timers = {}

====
